---- MODULE Spec2Model ----
(***************************************************************************)
(* Model of tarikhbot's time-driven execution and external-synchronisation *)
(* core: the job scheduler wrapper (config/scheduler.py), the Google       *)
(* credential store and refresh (apps/users/{google,services,models}.py)   *)
(* and the calendar reconciliation batch (bot/handlers/google.py).         *)
(*                                                                         *)
(* The three subsystems share no state, so each has its own specification  *)
(* (SchedSpec, CredSpec, SyncSpec) over the same variables; a subsystem's  *)
(* actions leave the other subsystems' variables unchanged.                *)
(***************************************************************************)
EXTENDS Integers, Sequences, FiniteSets, TLC

\* ---------------------------------------------------------------- bounds
MaxTime == 1        \* the wall clock runs over 0..MaxTime
MaxAdds == 2        \* number of job registrations in one behaviour

Users == {1}        \* telegram ids that have jobs; 2 is a user without any
TaskIds == {1}
Times == 0..MaxTime

None == "None"

\* ------------------------------------------------------------- variables
VARIABLES
    active,     \* BotScheduler._active
    pending,    \* AsyncIOScheduler._pending_jobs: jobs added while stopped
    store,      \* MemoryJobStore._jobs: the job table of the started engine
    now,        \* wall clock
    nextSeq,    \* number of the next Job object constructed
    oneShot,    \* the Job objects constructed with a date trigger (history)
    fired,      \* Job objects whose trigger fired (callback dispatched)
    dropped,    \* Job objects replaced, removed or lost before firing again
    supersedes, \* Job object -> the Job object it replaced in the table (0: none)
    schedRet,   \* what the last BotScheduler call returned
    engine      \* the singleton and its executor: BotScheduler._instance and
                \* _initialized, AsyncIOExecutor._instances, and what became of
                \* the last firing and of the last callback to end (history)

schedVars == <<active, pending, store, now, nextSeq, oneShot, fired, dropped, supersedes, schedRet, engine>>

VARIABLES
    registered, \* telegram ids that have a row in the users table
    authRows,   \* the google_auth table: rows in insertion order
    credCall,   \* the last credential operation: what it was given and returned
    storeCalls  \* the store_credentials coroutines in flight: where each one stands

credVars == <<registered, authRows, credCall, storeCalls>>

VARIABLES
    taskRows,    \* the tasks table: row i is the task with id i
    user_states, \* bot/handlers/google.py user_states: the conversation state per user
    events,      \* the provider's calendar: the ids of the events it holds
    syncCall,    \* the last calendar handler run: what it was given and what it did
    lastSync     \* the last confirmation run before the handler run in syncCall

syncVars == <<taskRows, user_states, events, syncCall, lastSync>>

VARIABLES
    compiled,    \* the last RecurrenceType.get_cron_expression call: arguments and result
    derived      \* one time of day and the triggers both registration paths built for it

vars == <<schedVars, credVars, syncVars, compiled, derived>>

\* ====================================================================
\* Recurrence compiler (apps/shared/enums.py RecurrenceType)
\* ====================================================================
\* A Python string is the sequence of its characters.
Digit == <<"0", "1", "2", "3", "4", "5", "6", "7", "8", "9">>

\* str(n) of a non-negative int, as an f-string renders it
RECURSIVE Str(_)
Str(n) == IF n < 10 THEN <<Digit[n + 1]>> ELSE Str(n \div 10) \o <<Digit[(n % 10) + 1]>>

\* the members of RecurrenceType; "other" is any value that is none of them
RecurrenceTypes == {"daily", "weekly", "monthly", "yearly", "custom", "other"}

\* the keyword arguments the function reads, and the values tried for each
Keys == {"hour", "minute", "day_of_week", "day_of_month", "month", "cron_expression"}
Hours == {9, 17}
Minutes == {5, 30}
DaysOfWeek == {0, 5}
DaysOfMonth == {15, 31}
Months == {6, 12}
CronExpressions == {<<"b", "a", "d">>, <<"*", "/", "5", " ", "*", " ", "*", " ", "*", " ", "*">>,
                    <<"6", "1", " ", "9", " ", "*", " ", "*", " ", "*">>}

\* a fallback literal of midnight, "0 0 * * *"
DefaultExpressionMidnight == <<"0", " ", "0", " ", "*", " ", "*", " ", "*">>

\* the literal "0 9 * * *"
DefaultExpression == <<"0", " ", "9", " ", "*", " ", "*", " ", "*">>

\* dict.get ignoring the supplied value
kwargs_get_default(kwargs, key, default) == default

\* dict.get(key, default)
kwargs_get(kwargs, key, default) ==
    IF key \in DOMAIN kwargs THEN kwargs[key] ELSE default

\* f"{a} {b} {c} {d} {e}" with each of the five parts already a string
FString(a, b, c, d, e) ==
    a \o <<" ">> \o b \o <<" ">> \o c \o <<" ">> \o d \o <<" ">> \o e

\* a compiler that takes the minute from the wall clock when none is passed
get_cron_expression_clocked(recurrence_type, kwargs) ==
    IF recurrence_type = "custom"
    THEN kwargs_get(kwargs, "cron_expression", DefaultExpression)
    ELSE FString(Str(kwargs_get(kwargs, "minute", now)), Str(kwargs_get(kwargs, "hour", 9)),
                 <<"*">>, <<"*">>, <<"*">>)

\* RecurrenceType.get_cron_expression(recurrence_type, **kwargs)
get_cron_expression(recurrence_type, kwargs) ==
    IF recurrence_type = "daily"
    THEN FString(Str(kwargs_get(kwargs, "minute", 0)), Str(kwargs_get(kwargs, "hour", 9)),
                 <<"*">>, <<"*">>, <<"*">>)
    ELSE IF recurrence_type = "weekly"
    THEN FString(Str(kwargs_get(kwargs, "minute", 0)), Str(kwargs_get(kwargs, "hour", 9)),
                 <<"*">>, <<"*">>, Str(kwargs_get(kwargs, "day_of_week", 1)))
    ELSE IF recurrence_type = "monthly"
    THEN FString(Str(kwargs_get(kwargs, "minute", 0)), Str(kwargs_get(kwargs, "hour", 9)),
                 Str(kwargs_get(kwargs, "day_of_month", 1)), <<"*">>, <<"*">>)
    ELSE IF recurrence_type = "yearly"
    THEN FString(Str(kwargs_get(kwargs, "minute", 0)), Str(kwargs_get(kwargs, "hour", 9)),
                 Str(kwargs_get(kwargs, "day_of_month", 1)),
                 Str(kwargs_get(kwargs, "month", 1)), <<"*">>)
    ELSE IF recurrence_type = "custom"
    THEN kwargs_get(kwargs, "cron_expression", DefaultExpression)
    ELSE DefaultExpression

\* a call that has not returned yet (`at`: the instants at which the method
\* has run on these arguments)
Pending(recurrence_type, kwargs) ==
    [recurrence_type |-> recurrence_type, kwargs |-> kwargs, expression |-> <<>>,
     returned |-> FALSE, at |-> <<>>]

\* no call made
RecIdle == compiled = Pending(None, <<>>)

\* the keyword arguments of a call that passes the keys in `given`
KwargsOf(given, hour, minute, day_of_week, day_of_month, month, cron_expression) ==
    [key \in given |->
        CASE key = "hour" -> hour
          [] key = "minute" -> minute
          [] key = "day_of_week" -> day_of_week
          [] key = "day_of_month" -> day_of_month
          [] key = "month" -> month
          [] key = "cron_expression" -> cron_expression]

\* the calls tried: every kind with every set of passed keys and values
RecurrenceCalls ==
    {Pending(recurrence_type,
             KwargsOf(given, hour, minute, day_of_week, day_of_month, month, cron_expression)) :
        recurrence_type \in RecurrenceTypes, given \in SUBSET Keys, hour \in Hours,
        minute \in Minutes, day_of_week \in DaysOfWeek, day_of_month \in DaysOfMonth,
        month \in Months, cron_expression \in CronExpressions}

\* the class method runs on the arguments of the call and returns
GetCronExpression ==
    /\ compiled.recurrence_type # None
    /\ ~compiled.returned
    /\ compiled' = [compiled EXCEPT
          !.expression = get_cron_expression(compiled.recurrence_type, compiled.kwargs),
          !.returned = TRUE, !.at = <<now>>]
    /\ UNCHANGED <<schedVars, credVars, syncVars, derived>>

\* the class method is called once more with the same arguments
GetCronExpressionAgain ==
    /\ compiled.returned
    /\ Len(compiled.at) = 1
    /\ compiled' = [compiled EXCEPT
          !.expression = get_cron_expression(compiled.recurrence_type, compiled.kwargs),
          !.at = Append(@, now)]
    /\ UNCHANGED <<schedVars, credVars, syncVars, derived>>

RecurrenceNext == GetCronExpression

\* ---- properties of the recurrence compiler
\* the fields of an expression: its maximal runs of characters other than " "
RECURSIVE Fields(_)
Fields(s) ==
    IF \A i \in 1..Len(s) : s[i] # " " THEN <<s>>
    ELSE <<SubSeq(s, 1, (CHOOSE i \in 1..Len(s) : s[i] = " " /\ \A j \in 1..(i - 1) : s[j] # " ") - 1)>>
         \o Fields(SubSeq(s, (CHOOSE i \in 1..Len(s) : s[i] = " " /\ \A j \in 1..(i - 1) : s[j] # " ") + 1, Len(s)))

\* the number a field of decimal digits denotes; -1 for anything else
RECURSIVE Value(_)
Value(f) ==
    IF f = <<>> \/ \E i \in 1..Len(f) : \A d \in 1..10 : Digit[d] # f[i] THEN -1
    ELSE IF Len(f) = 1 THEN (CHOOSE d \in 1..10 : Digit[d] = f[1]) - 1
    ELSE 10 * Value(SubSeq(f, 1, Len(f) - 1)) + Value(<<f[Len(f)]>>)

Wildcard == <<"*">>

\* the parameter a call passed, or the documented default when it omitted it
Param(key, default) ==
    IF key \in DOMAIN compiled.kwargs THEN compiled.kwargs[key] ELSE default

\* field i of the last result is the number n / is the wildcard
FieldIs(i, n) == Value(Fields(compiled.expression)[i]) = n
FieldWild(i) == Fields(compiled.expression)[i] = Wildcard

\* C20: for the kinds daily, weekly, monthly and yearly the compiler returns
\* five fields "minute hour day-of-month month day-of-week": minute and hour
\* are always the given ones, day-of-week is given for weekly only,
\* day-of-month for monthly and yearly, month for yearly only, every other
\* field is "*"; an omitted parameter counts as hour 9, minute 0,
\* day_of_week 1, day_of_month 1, month 1; and daily(9, 30) is "30 9 * * *".
C20_FiveFieldExpression ==
    compiled.returned =>
    /\ compiled.recurrence_type \in {"daily", "weekly", "monthly", "yearly"} =>
          /\ Len(Fields(compiled.expression)) = 5
          /\ FieldIs(1, Param("minute", 0))
          /\ FieldIs(2, Param("hour", 9))
          /\ IF compiled.recurrence_type \in {"monthly", "yearly"}
             THEN FieldIs(3, Param("day_of_month", 1)) ELSE FieldWild(3)
          /\ IF compiled.recurrence_type = "yearly"
             THEN FieldIs(4, Param("month", 1)) ELSE FieldWild(4)
          /\ IF compiled.recurrence_type = "weekly"
             THEN FieldIs(5, Param("day_of_week", 1)) ELSE FieldWild(5)
    /\ (compiled.recurrence_type = "daily"
          /\ DOMAIN compiled.kwargs \cap {"hour", "minute"} = {"hour", "minute"}
          /\ compiled.kwargs["hour"] = 9 /\ compiled.kwargs["minute"] = 30) =>
          compiled.expression = <<"3", "0", " ", "9", " ", "*", " ", "*", " ", "*">>

\* a yearly call that gives hour 17 and month 12 and omits minute and
\* day_of_month has returned "0 17 1 12 *"
C20_Witness ==
    /\ compiled.returned
    /\ compiled.recurrence_type = "yearly"
    /\ DOMAIN compiled.kwargs = {"hour", "month"}
    /\ compiled.kwargs["hour"] = 17 /\ compiled.kwargs["month"] = 12
    /\ compiled.expression = <<"0", " ", "1", "7", " ", "1", " ", "1", "2", " ", "*">>

\* C21: a call whose kind is none of daily, weekly, monthly, yearly, custom
\* returns (nothing is raised) the expression "0 9 * * *", whatever
\* parameters were passed.
C21_UnknownKindFallsBack ==
    (compiled.recurrence_type = "other" /\ compiled.returned) =>
        compiled.expression = <<"0", " ", "9", " ", "*", " ", "*", " ", "*">>

\* a call of unknown kind that passed an hour, a minute and a raw expression
\* has returned "0 9 * * *"
C21_Witness ==
    /\ compiled.returned
    /\ compiled.recurrence_type = "other"
    /\ {"hour", "minute", "cron_expression"} \subseteq DOMAIN compiled.kwargs
    /\ compiled.kwargs["hour"] = 17
    /\ compiled.expression = <<"0", " ", "9", " ", "*", " ", "*", " ", "*">>

\* ---- CronTrigger.from_crontab (APScheduler 3.x), called by
\* BotScheduler.add_recurring_task (config/scheduler.py:93)
\* str.split(): the runs of characters between blanks, empty runs dropped
split(s) == SelectSeq(Fields(s), LAMBDA f : f # <<>>)

\* one field expression compiled against the range of its field: "*" is
\* every value, "*/n" every n-th, a number is itself when it lies in the
\* range; a zero step, a number out of range and any other text raise
\* ValueError (names and lists do not occur in the expressions tried)
CronField(f, min, max) ==
    IF f = <<"*">> THEN <<"all">>
    ELSE IF Len(f) > 2 /\ f[1] = "*" /\ f[2] = "/"
    THEN IF Value(SubSeq(f, 3, Len(f))) >= 1
         THEN <<"step", Value(SubSeq(f, 3, Len(f)))>> ELSE <<"ValueError">>
    ELSE IF Value(f) >= min /\ Value(f) <= max THEN <<"value", Value(f)>>
    ELSE <<"ValueError">>

\* CronTrigger(minute, hour, day, month, day_of_week, timezone): second is
\* not given and, being less significant than the given fields, takes its
\* default 0; any field that does not compile raises ValueError
CronTrigger(minute, hour, day, month, day_of_week, timezone) ==
    IF <<"ValueError">> \in {minute, hour, day, month, day_of_week}
    THEN [error |-> "ValueError"]
    ELSE [error |-> None, second |-> <<"value", 0>>, minute |-> minute, hour |-> hour,
          day |-> day, month |-> month, day_of_week |-> day_of_week,
          timezone |-> timezone]

\* CronTrigger.from_crontab(expr): "Wrong number of fields" unless the
\* expression splits into five; no timezone is passed, so the trigger takes
\* the local timezone of the host (get_localzone())
from_crontab(expr) ==
    IF Len(split(expr)) # 5 THEN [error |-> "ValueError"]
    ELSE CronTrigger(CronField(split(expr)[1], 0, 59), CronField(split(expr)[2], 0, 23),
                     CronField(split(expr)[3], 1, 31), CronField(split(expr)[4], 1, 12),
                     CronField(split(expr)[5], 0, 6), "local")

\* ---- the daily trigger as both registration paths derive it
\* "HH:MM" as the callers of add_daily_summary write a time of day
Pad2(n) == IF n < 10 THEN <<"0">> \o Str(n) ELSE Str(n)
TimeOfDay(hour, minute) == Pad2(hour) \o <<":">> \o Pad2(minute)

\* time.split(':') for a string with one colon
SplitColon(time) ==
    <<SubSeq(time, 1, (CHOOSE i \in 1..Len(time) : time[i] = ":") - 1),
      SubSeq(time, (CHOOSE i \in 1..Len(time) : time[i] = ":") + 1, Len(time))>>

\* the trigger BotScheduler.add_daily_summary registers:
\* hour, minute = map(int, time.split(':')), then add_job(func, 'cron',
\* hour=hour, minute=minute): the 'cron' alias makes the scheduler build
\* CronTrigger(hour=.., minute=.., timezone=<the scheduler's timezone>);
\* the date fields are not given and, being more significant, are "*"
DailySummaryTrigger(time) ==
    CronTrigger(CronField(Str(Value(SplitColon(time)[2])), 0, 59),
                CronField(Str(Value(SplitColon(time)[1])), 0, 23),
                <<"all">>, <<"all">>, <<"all">>, "scheduler")

\* the trigger BotScheduler.add_recurring_task registers for the expression
\* the compiler returns for daily(hour, minute)
DailyRecurringTrigger(hour, minute) ==
    from_crontab(get_cron_expression("daily",
        [key \in {"hour", "minute"} |-> IF key = "hour" THEN hour ELSE minute]))

\* the hours and minutes tried, and the offsets (minutes east of UTC) of the
\* host's local timezone: UTC, UTC+1, UTC+3:30
DayHours == 0..23
DayMinutes == {0, 5, 30, 59}
LocalZones == {0, 60, 210}

NoTrigger == [error |-> "none"]

\* nothing derived
DerivedIdle ==
    derived = [hour |-> -1, minute |-> -1, localzone |-> 0,
               summary |-> NoTrigger, recurring |-> NoTrigger]

\* add_daily_summary builds its trigger
BuildSummaryTrigger ==
    /\ derived.hour >= 0
    /\ derived.summary = NoTrigger
    /\ derived' = [derived EXCEPT
          !.summary = DailySummaryTrigger(TimeOfDay(derived.hour, derived.minute))]
    /\ UNCHANGED <<schedVars, credVars, syncVars, compiled>>

\* the compiler and add_recurring_task build theirs
BuildRecurringTrigger ==
    /\ derived.hour >= 0
    /\ derived.recurring = NoTrigger
    /\ derived' = [derived EXCEPT
          !.recurring = DailyRecurringTrigger(derived.hour, derived.minute)]
    /\ UNCHANGED <<schedVars, credVars, syncVars, compiled>>

\* ====================================================================
\* Job scheduler engine (config/scheduler.py over APScheduler 3.x)
\* ====================================================================

\* config/scheduler.py:72, :91, :108 -- the deterministic job ids
\* f"reminder_{user_id}_{task_id}", f"recurring_{user_id}_{task_id}",
\* f"summary_{user_id}", kept as the tuple of their parts.
ReminderId(user_id, task_id) == <<"reminder", user_id, task_id>>
RecurringId(user_id, task_id) == <<"recurring", user_id, task_id>>
SummaryId(user_id) == <<"summary", user_id>>

JobIds == {ReminderId(u, t) : u \in Users, t \in TaskIds}
          \cup {RecurringId(u, t) : u \in Users, t \in TaskIds}
          \cup {SummaryId(u) : u \in Users}

\* A cron trigger is abstracted to "fires at every instant t with
\* t % CronPeriod = slot"; slot -1 stands for an expression that
\* CronTrigger.from_crontab rejects.
CronPeriod == 2
CronSlots == 0..(CronPeriod - 1)
BadCron == -1

\* trigger.get_next_fire_time(previous, now) of DateTrigger and CronTrigger:
\* a date trigger yields its run_date once (even when it lies in the past),
\* a cron trigger the first matching instant not before `from`.
NextFire(trig, from) ==
    IF trig[1] = "date" THEN trig[2]
    ELSE from + ((trig[2] - from) % CronPeriod)

\* what a BotScheduler call handed back: the job id (add_*), True/False
\* (remove_job), None (start, shutdown) or the exception that escaped
Ret(tag, id) == [tag |-> tag, id |-> id]

\* positions of the jobs held under a job id
Positions(jobs, id) == {i \in 1..Len(jobs) : jobs[i].id = id}

RemoveAt(s, i) == [k \in 1..(Len(s) - 1) |-> IF k < i THEN s[k] ELSE s[k + 1]]

Seqs(jobs) == {jobs[i].seq : i \in 1..Len(jobs)}

\* BaseScheduler._real_add_job(job, 'default', replace_existing=True):
\* computes next_run_time, then store.add_job; on ConflictingIdError the
\* stored job is overwritten (store.update_job).
RealAddNoReplace(jobs, job, t) ==
    LET j == [job EXCEPT !.next = NextFire(job.trig, t)]
    IN Append(jobs, j)

RealAdd(jobs, job, t) ==
    LET j == [job EXCEPT !.next = NextFire(job.trig, t)]
        P == Positions(jobs, job.id)
    IN IF P = {} THEN Append(jobs, j)
       ELSE [k \in 1..Len(jobs) |-> IF k \in P THEN j ELSE jobs[k]]

\* the Job object that _real_add_job overwrites, 0 when the id is new
Overwritten(jobs, job) ==
    LET P == Positions(jobs, job.id)
    IN IF P = {} THEN 0 ELSE jobs[CHOOSE i \in P : TRUE].seq

RECURSIVE AddAll(_, _, _)
AddAll(jobs, pend, t) ==
    IF pend = <<>> THEN jobs
    ELSE AddAll(RealAdd(jobs, Head(pend), t), Tail(pend), t)

RECURSIVE OverwrittenAll(_, _, _)
OverwrittenAll(jobs, pend, t) ==
    IF pend = <<>> THEN [s \in {} |-> 0]
    ELSE LET j == Head(pend)
             rest == OverwrittenAll(RealAdd(jobs, j, t), Tail(pend), t)
         IN [s \in {j.seq} \cup DOMAIN rest |->
                IF s = j.seq THEN Overwritten(jobs, j) ELSE rest[s]]

\* BaseScheduler.add_job as called with id=job_id, replace_existing=True:
\* while the scheduler is stopped the job is only appended to _pending_jobs
\* ("adding job tentatively"), otherwise it is really added.
SchedulerAddJob(id, trig) ==
    LET job == [id |-> id, trig |-> trig, next |-> 0, seq |-> nextSeq]
    IN /\ nextSeq <= MaxAdds
       /\ nextSeq' = nextSeq + 1
       /\ oneShot' = IF trig[1] = "date" THEN oneShot \cup {nextSeq} ELSE oneShot
       /\ IF ~active
          THEN /\ pending' = Append(pending, job)
               /\ UNCHANGED <<store, dropped, supersedes>>
          ELSE /\ store' = RealAdd(store, job, now)
               /\ supersedes' = [supersedes EXCEPT ![job.seq] = Overwritten(store, job)]
               /\ dropped' = dropped \cup ({Overwritten(store, job)} \ {0})
               /\ UNCHANGED pending
       /\ schedRet' = Ret("job", id)
       /\ UNCHANGED <<active, now, fired, credVars, syncVars, compiled, derived, engine>>

\* BotScheduler.start without its guard: AsyncIOScheduler.start raises
\* SchedulerAlreadyRunningError when the scheduler is running
StartUnguarded ==
    /\ IF ~active
       THEN /\ store' = AddAll(store, pending, now)
            /\ pending' = <<>>
            /\ LET ow == OverwrittenAll(store, pending, now)
               IN /\ supersedes' = [s \in DOMAIN supersedes |->
                                       IF s \in DOMAIN ow THEN ow[s] ELSE supersedes[s]]
                  /\ dropped' = dropped \cup ({ow[s] : s \in DOMAIN ow} \ {0})
            /\ active' = TRUE
            /\ schedRet' = Ret("None", <<"started">>)
       ELSE /\ schedRet' = Ret("SchedulerAlreadyRunningError", <<>>)
            /\ UNCHANGED <<store, pending, supersedes, dropped, active>>
    /\ UNCHANGED <<now, nextSeq, oneShot, fired, credVars, syncVars, compiled, derived, engine>>

\* BotScheduler.start: returns None; "Scheduler started" is logged only when
\* the engine was stopped (the record's second field holds the log line)
Start ==
    /\ IF ~active
       THEN /\ store' = AddAll(store, pending, now)
            /\ pending' = <<>>
            /\ LET ow == OverwrittenAll(store, pending, now)
               IN /\ supersedes' = [s \in DOMAIN supersedes |->
                                       IF s \in DOMAIN ow THEN ow[s] ELSE supersedes[s]]
                  /\ dropped' = dropped \cup ({ow[s] : s \in DOMAIN ow} \ {0})
            /\ active' = TRUE
            /\ schedRet' = Ret("None", <<"started">>)
       ELSE /\ schedRet' = Ret("None", <<>>)
            /\ UNCHANGED <<store, pending, supersedes, dropped, active>>
    /\ UNCHANGED <<now, nextSeq, oneShot, fired, credVars, syncVars, compiled, derived, engine>>

\* BotScheduler.shutdown: AsyncIOScheduler.shutdown shuts the job stores
\* down, and MemoryJobStore.shutdown drops every job it holds.
Shutdown ==
    /\ IF active
       THEN /\ dropped' = dropped \cup Seqs(store)
            /\ store' = <<>>
            /\ active' = FALSE
            /\ schedRet' = Ret("None", <<"shutdown">>)
       ELSE /\ schedRet' = Ret("None", <<>>)
            /\ UNCHANGED <<store, dropped, active>>
    /\ UNCHANGED <<pending, now, nextSeq, oneShot, fired, supersedes, credVars, syncVars, compiled, derived, engine>>

\* BotScheduler.add_reminder
add_reminder(user_id, task_id, run_date) ==
    SchedulerAddJob(ReminderId(user_id, task_id), <<"date", run_date>>)

\* BotScheduler.add_recurring_task building its trigger without parsing
add_recurring_task_unparsed(user_id, task_id, cron_expression) ==
    SchedulerAddJob(RecurringId(user_id, task_id), <<"cron", cron_expression>>)

\* BotScheduler.add_recurring_task: CronTrigger.from_crontab raises on a
\* malformed expression before add_job is reached.
add_recurring_task(user_id, task_id, cron_expression) ==
    IF cron_expression = BadCron
    THEN /\ schedRet' = Ret("ValueError", <<>>)
         /\ UNCHANGED <<active, pending, store, now, nextSeq, oneShot, fired, dropped, supersedes, credVars, syncVars, compiled, derived, engine>>
    ELSE SchedulerAddJob(RecurringId(user_id, task_id), <<"cron", cron_expression>>)

\* the scaled clock of the engine has CronPeriod instants to a period: a
\* trigger with minute m stands in slot m % CronPeriod, one with a
\* wildcard or step minute in slot 0, a rejected expression is BadCron
SlotOf(trigger) ==
    IF trigger.error # None THEN BadCron
    ELSE IF trigger.minute[1] = "value" THEN trigger.minute[2] % CronPeriod
    ELSE 0

\* a caller hands the expression the compiler returned to
\* BotScheduler.add_recurring_task
ScheduleCompiled(user_id, task_id) ==
    /\ compiled.returned
    /\ add_recurring_task(user_id, task_id, SlotOf(from_crontab(compiled.expression)))

\* BotScheduler.add_daily_summary: hour, minute = map(int, time.split(':'))
add_daily_summary(user_id, time) ==
    SchedulerAddJob(SummaryId(user_id), <<"cron", time>>)

\* BotScheduler.remove_job: BaseScheduler.remove_job deletes the first
\* pending job of that id while stopped, the stored job while running, and
\* raises JobLookupError (caught: False) when there is none.
remove_job_uncaught(job_id) ==
    LET jobs == IF active THEN store ELSE pending
        P == Positions(jobs, job_id)
    IN /\ IF P = {}
          THEN /\ schedRet' = Ret("JobLookupError", job_id)
               /\ UNCHANGED <<pending, store, dropped>>
          ELSE LET i == CHOOSE i \in P : \A k \in P : i <= k
               IN /\ schedRet' = Ret("True", job_id)
                  /\ dropped' = dropped \cup {jobs[i].seq}
                  /\ IF active
                     THEN store' = RemoveAt(store, i) /\ UNCHANGED pending
                     ELSE pending' = RemoveAt(pending, i) /\ UNCHANGED store
       /\ UNCHANGED <<active, now, nextSeq, oneShot, fired, supersedes, credVars, syncVars, compiled, derived, engine>>

remove_job(job_id) ==
    LET jobs == IF active THEN store ELSE pending
        P == Positions(jobs, job_id)
    IN /\ IF P = {}
          THEN /\ schedRet' = Ret("False", job_id)
               /\ UNCHANGED <<pending, store, dropped>>
          ELSE LET i == CHOOSE i \in P : \A k \in P : i <= k
               IN /\ schedRet' = Ret("True", job_id)
                  /\ dropped' = dropped \cup {jobs[i].seq}
                  /\ IF active
                     THEN store' = RemoveAt(store, i) /\ UNCHANGED pending
                     ELSE pending' = RemoveAt(pending, i) /\ UNCHANGED store
       /\ UNCHANGED <<active, now, nextSeq, oneShot, fired, supersedes, credVars, syncVars, compiled, derived, engine>>

\* job.kwargs['user_id'] as add_reminder, add_recurring_task and
\* add_daily_summary fill it: the user id that is also part of the job id
KwargsUserId(job) == job.id[2]

\* the sub-sequence of the jobs whose argument bag holds user_id
RECURSIVE JobsOfUser(_, _)
JobsOfUser(jobs, user_id) ==
    IF jobs = <<>> THEN <<>>
    ELSE IF KwargsUserId(Head(jobs)) = user_id
    THEN <<Head(jobs)>> \o JobsOfUser(Tail(jobs), user_id)
    ELSE JobsOfUser(Tail(jobs), user_id)

\* the dict get_user_jobs builds for one job ('name', the callback's name,
\* is the same for every job and left out)
JobSummary(job) == [id |-> job.id, next_run_time |-> job.next, trigger |-> job.trig]

\* BotScheduler.get_user_jobs: BaseScheduler.get_jobs() yields the pending
\* jobs while the scheduler is stopped and the stored jobs otherwise.  A
\* pending Job has no next_run_time attribute yet (_real_add_job sets it
\* when the scheduler starts), so reading job.next_run_time of a pending
\* job of this user raises AttributeError; jobs of other users are skipped
\* before the attribute is read.
get_user_jobs(user_id) ==
    /\ schedRet' = IF ~active /\ JobsOfUser(pending, user_id) # <<>>
                   THEN Ret("AttributeError", <<>>)
                   ELSE Ret("jobs", [k \in 1..Len(JobsOfUser(IF active THEN store ELSE pending, user_id)) |->
                          JobSummary(JobsOfUser(IF active THEN store ELSE pending, user_id)[k])])
    /\ UNCHANGED <<active, pending, store, now, nextSeq, oneShot, fired, dropped, supersedes, credVars, syncVars, compiled, derived, engine>>

\* config/settings.py:45-48 SCHEDULER_JOB_DEFAULTS, passed to the
\* AsyncIOScheduler as job_defaults (scheduler.py:36): at most three
\* instances of a job run at a time; misfire_grace_time is not set and
\* stays at the library's one second, the unit of the clock
max_instances == 3
misfire_grace_time == 1

\* the executor with no cap on the running instances of a job
SubmittedUncapped(eng, id, run_time, t) ==
    IF t - run_time > misfire_grace_time
    THEN [eng EXCEPT !.last = <<id, run_time, "missed">>]
    ELSE [eng EXCEPT !.instances[id] = @ + 1, !.last = <<id, run_time, "run">>]

\* BaseExecutor.submit_job and run_job for one run time of a job: with
\* max_instances instances of the job id running, submit_job raises
\* MaxInstancesReachedError, which _process_jobs logs ("Execution of job
\* skipped") and goes on; otherwise the instance is counted and run_job
\* calls the callback unless the run time lies more than
\* misfire_grace_time back ("Run time of job was missed")
Submitted(eng, id, run_time, t) ==
    IF eng.instances[id] >= max_instances
    THEN [eng EXCEPT !.last = <<id, run_time, "max_instances">>]
    ELSE IF t - run_time > misfire_grace_time
    THEN [eng EXCEPT !.last = <<id, run_time, "missed">>]
    ELSE [eng EXCEPT !.instances[id] = @ + 1, !.last = <<id, run_time, "run">>]

\* BaseScheduler._process_jobs for one due job: the callback is handed to
\* the executor, then the job is rescheduled at its trigger's next fire time
\* or, when the trigger is exhausted (date trigger), removed from the store.
Due(job) == job.next <= now

Fire(id) ==
    /\ active
    /\ \E i \in Positions(store, id) :
          /\ Due(store[i])
          /\ fired' = fired \cup {store[i].seq}
          /\ engine' = Submitted(engine, id, store[i].next, now)
          /\ IF store[i].trig[1] = "date"
             THEN store' = RemoveAt(store, i)
             ELSE store' = [store EXCEPT ![i].next = NextFire(store[i].trig, now + 1)]
    /\ UNCHANGED <<active, pending, now, nextSeq, oneShot, dropped, supersedes, schedRet, credVars, syncVars, compiled, derived>>

\* a callback raising with nothing to catch it: the scheduling loop ends
CompleteUncaught(id, outcome) ==
    /\ engine.instances[id] > 0
    /\ engine' = [engine EXCEPT !.instances[id] = @ - 1, !.event = <<id, outcome>>]
    /\ active' = (active /\ outcome # "raised")
    /\ UNCHANGED <<pending, store, now, nextSeq, oneShot, fired, dropped, supersedes, schedRet, credVars, syncVars, compiled, derived>>

\* A running callback ends, by returning or by raising: run_job catches
\* what the callback raises, logs it ("Job ... raised an exception") and
\* reports EVENT_JOB_ERROR instead of EVENT_JOB_EXECUTED; either way the
\* executor's done callback takes the instance off the job id's count.
Complete(id, outcome) ==
    /\ engine.instances[id] > 0
    /\ engine' = [engine EXCEPT !.instances[id] = @ - 1, !.event = <<id, outcome>>]
    /\ UNCHANGED <<active, pending, store, now, nextSeq, oneShot, fired, dropped, supersedes, schedRet, credVars, syncVars, compiled, derived>>

\* the clock of a longer run: time for a recurring job to come due once
\* more than max_instances allows to run together
Horizon == max_instances * CronPeriod

LongTick ==
    /\ now < Horizon
    /\ active => \A i \in 1..Len(store) : ~Due(store[i])
    /\ now' = now + 1
    /\ UNCHANGED <<active, pending, store, nextSeq, oneShot, fired, dropped, supersedes, schedRet, engine, credVars, syncVars, compiled, derived>>

\* a constructor that builds a new object on every call
BotSchedulerFresh ==
    /\ engine' = [instance |-> engine.instance + 1, initialized |-> TRUE,
                  instances |-> [id \in DOMAIN engine.instances |-> 0],
                  last |-> engine.last, event |-> engine.event]
    /\ active' = FALSE
    /\ store' = <<>>
    /\ pending' = <<>>
    /\ dropped' = dropped \cup Seqs(store) \cup Seqs(pending)
    /\ schedRet' = Ret("BotScheduler", <<engine.instance + 1>>)
    /\ UNCHANGED <<now, nextSeq, oneShot, fired, supersedes, credVars, syncVars, compiled, derived>>

\* BotScheduler(): __new__ builds the object only while cls._instance is
\* None, and __init__ returns at once when the object is initialised;
\* otherwise it makes the AsyncIOScheduler with its empty job store and
\* sets _active to False.  The call hands back the object (its number).
BotSchedulerNew ==
    /\ IF engine.instance # 0 /\ engine.initialized
       THEN /\ schedRet' = Ret("BotScheduler", <<engine.instance>>)
            /\ UNCHANGED <<engine, active, store, pending, dropped>>
       ELSE /\ engine' = [engine EXCEPT !.instance = 1, !.initialized = TRUE,
                             !.instances = [id \in DOMAIN engine.instances |-> 0]]
            /\ active' = FALSE
            /\ store' = <<>>
            /\ pending' = <<>>
            /\ dropped' = dropped \cup Seqs(store) \cup Seqs(pending)
            /\ schedRet' = Ret("BotScheduler", <<1>>)
    /\ UNCHANGED <<now, nextSeq, oneShot, fired, supersedes, credVars, syncVars, compiled, derived>>

\* The clock advances; a running engine wakes up at each job's due time, so
\* no instant passes while a stored job is due.
Tick ==
    /\ now < MaxTime
    /\ active => \A i \in 1..Len(store) : ~Due(store[i])
    /\ now' = now + 1
    /\ UNCHANGED <<active, pending, store, nextSeq, oneShot, fired, dropped, supersedes, schedRet, credVars, syncVars, compiled, derived, engine>>

\* the scheduler as constructed at import time (scheduler = BotScheduler())
SchedIdle ==
    /\ active = FALSE
    /\ pending = <<>>
    /\ store = <<>>
    /\ now = 0
    /\ nextSeq = 1
    /\ oneShot = {}
    /\ fired = {}
    /\ dropped = {}
    /\ supersedes = [s \in 1..MaxAdds |-> 0]
    /\ engine = [instance |-> 1, initialized |-> TRUE,
                 instances |-> [id \in JobIds |-> 0],
                 last |-> <<>>, event |-> <<>>]
    /\ schedRet = Ret("None", <<>>)

\* ====================================================================
\* Credential store and refresh (apps/users/google.py, services.py,
\* models.py; database/models.py GoogleAuth)
\* ====================================================================
Accounts == {1}                 \* telegram ids that use the Google integration
AccessTokens == {"A1", "A2"}
RefreshTokens == {"R1", "R2"}
Emails == {"e1"}
ExpiresIns == {1, 2}            \* "expires_in" of a token response

\* database/models.py GoogleAuth: calendar_sync_enabled and gmail_sync_enabled
\* default to False; refresh_token and email are nullable.  (The BaseModel
\* bookkeeping columns id, created_at, updated_at are not part of the
\* credential and are left out.)
AuthRow(user, access_token, refresh_token, token_expiry, email) ==
    [user |-> user, access_token |-> access_token, refresh_token |-> refresh_token,
     token_expiry |-> token_expiry, email |-> email,
     calendar_sync_enabled |-> FALSE, gmail_sync_enabled |-> FALSE]

NoRow == [absent |-> TRUE]

is_expired_reversed(row, t) == t < row.token_expiry

\* GoogleAuth.is_expired: datetime.datetime.now() > self.token_expiry
is_expired(row, t) == t > row.token_expiry

\* rows of a user in the google_auth table
RowsOf(rows, user) == {i \in 1..Len(rows) : rows[i].user = user}

\* apps/users/models.py get_google_auth (behind GoogleAuthService.get_credentials,
\* which first looks the user up): the user's row, None when the user or
\* the row does not exist
get_credentials(reg, rows, user) ==
    IF user \notin reg \/ RowsOf(rows, user) = {} THEN NoRow
    ELSE rows[CHOOSE i \in RowsOf(rows, user) : TRUE]

\* apps/users/models.py store_google_auth: update the existing row (refresh
\* token and email only when given), else create one.
store_google_auth_overwrite(rows, user, access_token, refresh_token, token_expiry, email) ==
    LET P == RowsOf(rows, user)
    IN IF P = {}
       THEN Append(rows, AuthRow(user, access_token, refresh_token, token_expiry, email))
       ELSE [i \in 1..Len(rows) |->
               IF i \in P
               THEN [rows[i] EXCEPT !.access_token = access_token,
                                    !.refresh_token = refresh_token,
                                    !.token_expiry = token_expiry,
                                    !.email = IF email # None THEN email ELSE @]
               ELSE rows[i]]

store_google_auth(rows, user, access_token, refresh_token, token_expiry, email) ==
    LET P == RowsOf(rows, user)
    IN IF P = {}
       THEN Append(rows, AuthRow(user, access_token, refresh_token, token_expiry, email))
       ELSE [i \in 1..Len(rows) |->
               IF i \in P
               THEN [rows[i] EXCEPT !.access_token = access_token,
                                    !.refresh_token = IF refresh_token # None THEN refresh_token ELSE @,
                                    !.token_expiry = token_expiry,
                                    !.email = IF email # None THEN email ELSE @]
               ELSE rows[i]]

\* GoogleAuthService.store_credentials: nothing is stored for an unknown user
store_credentials(reg, rows, user, access_token, refresh_token, token_expiry, email) ==
    IF user \notin reg THEN rows
    ELSE store_google_auth(rows, user, access_token, refresh_token, token_expiry, email)

\* ---- the token endpoint's answers to one POST
\* A response either fails in transport (raised), or carries a status and a
\* JSON body; a key the body lacks is None (access_token, refresh_token) or
\* -1 (expires_in).
Json(access_token, expires_in, refresh_token) ==
    [access_token |-> access_token, expires_in |-> expires_in, refresh_token |-> refresh_token]

EmptyJson == Json(None, -1, None)

Response(raised, status, json) == [raised |-> raised, status |-> status, json |-> json]

Responses ==
    {Response(TRUE, 0, EmptyJson), Response(FALSE, 400, EmptyJson)}
    \cup {Response(FALSE, 200, Json(a, e, r)) :
            a \in AccessTokens \cup {None}, e \in ExpiresIns \cup {-1}, r \in RefreshTokens \cup {None}}

\* GoogleAPIClient._refresh_token: one POST; the JSON body on status 200,
\* None on any other status or on an exception
_refresh_token_retry(refresh_token, resp) ==
    IF ~resp.raised /\ resp.status = 200
    THEN [json |-> resp.json, posts |-> 1]
    ELSE [json |-> EmptyJson, posts |-> 2]

_refresh_token(refresh_token, resp) ==
    IF ~resp.raised /\ resp.status = 200
    THEN [json |-> resp.json, posts |-> 1]
    ELSE [json |-> EmptyJson, posts |-> 1]

\* google.py:35 `if not auth.refresh_token`
RefreshableAlways(row) == TRUE

Refreshable(row) == row.refresh_token # None

\* google.py:42 `if new_creds:` and the two subscripts new_creds["access_token"],
\* new_creds["expires_in"], whose KeyError the except clause turns into None
Usable(json) == json # EmptyJson /\ json.access_token # None /\ json.expires_in # -1

\* google.py:47, :55 -- the refresh token stored and returned after a refresh
\* ("Keep existing refresh token")
IssuedRefreshToken(row, json) ==
    IF json.refresh_token # None THEN json.refresh_token ELSE row.refresh_token

KeptRefreshToken(row, json) == row.refresh_token

UserCreds(access_token, refresh_token, expiry) ==
    [tag |-> "UserCreds", access_token |-> access_token, refresh_token |-> refresh_token,
     expiry |-> expiry]

Returned(tag) == [tag |-> tag, access_token |-> None, refresh_token |-> None, expiry |-> -1]

\* google.py:53-63 -- the credential handed back after a refresh
StaleCreds(row, json, t) ==
    UserCreds(row.access_token, KeptRefreshToken(row, json), t + json.expires_in)

RefreshedCreds(row, json, t) ==
    UserCreds(json.access_token, KeptRefreshToken(row, json), t + json.expires_in)

\* google.py:42-50 -- the table after the refresh attempt: written only when
\* the attempt produced usable credentials
RefreshedRowsEager(reg, rows, row, json, t) ==
    store_credentials(reg, rows, row.user, json.access_token, KeptRefreshToken(row, json),
                      IF json.expires_in = -1 THEN t ELSE t + json.expires_in, row.email)

RefreshedRows(reg, rows, row, json, t) ==
    IF Usable(json)
    THEN store_credentials(reg, rows, row.user, json.access_token, KeptRefreshToken(row, json),
                           t + json.expires_in, row.email)
    ELSE rows

\* GoogleAPIClient._get_credentials as a function of the tables, the clock
\* and the answer the token endpoint gives if it is asked
GetCredentialsResult(reg, rows, user, resp, t) ==
    LET row == get_credentials(reg, rows, user)
    IN IF row = NoRow
       THEN [rows |-> rows, ret |-> Returned("None"), log |-> "no_credentials", posts |-> 0]
       ELSE IF ~is_expired(row, t)
       THEN [rows |-> rows,
             ret |-> UserCreds(row.access_token, row.refresh_token, row.token_expiry),
             log |-> "valid", posts |-> 0]
       ELSE IF ~Refreshable(row)
       THEN [rows |-> rows, ret |-> Returned("None"), log |-> "no_refresh_token", posts |-> 0]
       ELSE LET r == _refresh_token(row.refresh_token, resp)
            IN [rows |-> RefreshedRows(reg, rows, row, r.json, t),
                ret |-> IF Usable(r.json) THEN RefreshedCreds(row, r.json, t)
                        ELSE Returned("None"),
                log |-> IF Usable(r.json) THEN "refreshed"
                        ELSE IF r.json = EmptyJson THEN "refresh_failed" ELSE "refresh_error",
                posts |-> r.posts]

\* the record of an operation: its name and user, what it returned, the
\* branch it took, the number of POSTs it sent to the token endpoint and the
\* answer it got, the google_auth table as it was before the operation, and
\* the time of the operation
Call(op, user, ret, log, posts, resp) ==
    [op |-> op, user |-> user, ret |-> ret, log |-> log, posts |-> posts, resp |-> resp,
     before |-> authRows, at |-> now]

NoResponse == Response(FALSE, 0, EmptyJson)

\* GoogleAPIClient(user)._get_credentials()
GetCredentials(user, resp) ==
    LET r == GetCredentialsResult(registered, authRows, user, resp, now)
    IN /\ authRows' = r.rows
       /\ credCall' = Call("get_credentials", user, r.ret, r.log, r.posts,
                           IF r.posts > 0 THEN resp ELSE NoResponse)
       /\ UNCHANGED <<registered, storeCalls, schedVars, syncVars, compiled, derived>>

\* GoogleAuthService.store_credentials, as process_oauth_callback and any
\* other caller invoke it
StoreCredentials(user, access_token, refresh_token, token_expiry, email) ==
    /\ authRows' = store_credentials(registered, authRows, user, access_token,
                                     refresh_token, token_expiry, email)
    /\ credCall' = Call("store_credentials", user,
                        IF user \in registered
                        THEN [UserCreds(access_token, refresh_token, token_expiry)
                                EXCEPT !.tag = "GoogleAuth"]
                        ELSE Returned("None"),
                        IF user \notin registered THEN "no_user"
                        ELSE IF RowsOf(authRows, user) = {} THEN "created" ELSE "updated",
                        0, NoResponse)
    /\ UNCHANGED <<registered, storeCalls, schedVars, syncVars, compiled, derived>>

\* services.py:229-230 -- GoogleAuth.get(user=user) then delete()
DeleteAuthNoop(rows, user) == rows

DeleteAuth(rows, user) == SelectSeq(rows, LAMBDA r : r.user # user)

\* GoogleAuthService.google_disconnect
GoogleDisconnect(user) ==
    LET found == user \in registered /\ RowsOf(authRows, user) # {}
    IN /\ authRows' = IF found THEN DeleteAuth(authRows, user) ELSE authRows
       /\ credCall' = Call("google_disconnect", user,
                           Returned(IF found THEN "True" ELSE "False"),
                           IF user \notin registered THEN "no_user"
                           ELSE IF found THEN "disconnected" ELSE "no_credentials",
                           0, NoResponse)
       /\ UNCHANGED <<registered, storeCalls, schedVars, syncVars, compiled, derived>>

\* GoogleAuthService.update_sync_settings over update_google_sync_settings;
\* a None argument leaves that flag alone
UpdateSyncSettings(user, calendar_sync, gmail_sync) ==
    LET found == user \in registered /\ RowsOf(authRows, user) # {}
    IN /\ authRows' =
            IF ~found THEN authRows
            ELSE [i \in 1..Len(authRows) |->
                    IF authRows[i].user = user
                    THEN [authRows[i] EXCEPT
                            !.calendar_sync_enabled =
                                IF calendar_sync = None THEN @ ELSE calendar_sync = "True",
                            !.gmail_sync_enabled =
                                IF gmail_sync = None THEN @ ELSE gmail_sync = "True"]
                    ELSE authRows[i]]
       /\ credCall' = Call("update_sync_settings", user,
                           Returned(IF found THEN "True" ELSE "False"),
                           IF user \notin registered THEN "no_user"
                           ELSE IF found THEN "updated" ELSE "no_credentials",
                           0, NoResponse)
       /\ UNCHANGED <<registered, storeCalls, schedVars, syncVars, compiled, derived>>

\* UserService.register_user (get_or_create_user)
RegisterUser(user) ==
    /\ registered' = registered \cup {user}
    /\ credCall' = Call("register_user", user, Returned("User"),
                        IF user \in registered THEN "found" ELSE "created", 0, NoResponse)
    /\ UNCHANGED <<authRows, storeCalls, schedVars, syncVars, compiled, derived>>

\* ---- GoogleAuthService.store_credentials as a coroutine: the event loop
\* may run another coroutine at each await, so the lookup (services.py:155,
\* models.py:93 `await GoogleAuth.get`) and the write (models.py:104 `await
\* google_auth.save()`, :108 `await GoogleAuth.create`) are two steps
StoreCallers == {1, 2}

\* a coroutine that has not been started
IdleCall ==
    [pc |-> "idle", user |-> 0, access_token |-> None, refresh_token |-> None,
     token_expiry |-> -1, email |-> None, at |-> 0, seen |-> NoRow, ret |-> "none",
     saw |-> None, creds |-> None]

\* where the lookup leaves the coroutine: done with None for an unknown
\* user; about to create when GoogleAuth.get raised DoesNotExist; ended by
\* MultipleObjectsReturned, which store_google_auth does not catch, when the
\* user has several rows; else about to save the row object it read (a
\* coroutine that has ended keeps nothing but its outcome)
Looked(call, reg, rows) ==
    IF call.user \notin reg THEN [IdleCall EXCEPT !.pc = "done", !.ret = "None"]
    ELSE IF RowsOf(rows, call.user) = {} THEN [call EXCEPT !.pc = "missing"]
    ELSE IF Cardinality(RowsOf(rows, call.user)) > 1
    THEN [IdleCall EXCEPT !.pc = "done", !.ret = "MultipleObjectsReturned"]
    ELSE [call EXCEPT !.pc = "found",
                      !.at = CHOOSE i \in RowsOf(rows, call.user) : TRUE,
                      !.seen = rows[CHOOSE i \in RowsOf(rows, call.user) : TRUE]]

\* the table after the coroutine's write: a new row, or the row object read
\* at the lookup saved with the new values
Written(call, rows) ==
    IF call.pc = "missing"
    THEN Append(rows, AuthRow(call.user, call.access_token, call.refresh_token,
                              call.token_expiry, call.email))
    ELSE [rows EXCEPT ![call.at] =
            [call.seen EXCEPT !.access_token = call.access_token,
                              !.refresh_token = IF call.refresh_token # None
                                                THEN call.refresh_token ELSE @,
                              !.token_expiry = call.token_expiry,
                              !.email = IF call.email # None THEN call.email ELSE @]]

\* the coroutine starts and runs up to its write
StoreLookup(c, user, access_token, refresh_token, token_expiry, email) ==
    /\ storeCalls[c].pc \in {"idle", "done"}
    /\ storeCalls' = [storeCalls EXCEPT ![c] =
          Looked([IdleCall EXCEPT !.user = user, !.access_token = access_token,
                                  !.refresh_token = refresh_token,
                                  !.token_expiry = token_expiry, !.email = email],
                 registered, authRows)]
    /\ UNCHANGED <<registered, authRows, credCall, schedVars, syncVars, compiled, derived>>

\* what the coroutine ends with after its write: store_credentials hands
\* the row back; _get_credentials on its refresh path goes on to return
\* UserCreds(access_token=new_creds["access_token"], ...) (google.py:53-63),
\* kept in creds with the access token it had found expired (saw)
Finished(call) ==
    IF call.creds = None THEN [IdleCall EXCEPT !.pc = "done", !.ret = "row"]
    ELSE [IdleCall EXCEPT !.pc = "done", !.ret = "UserCreds", !.user = call.user,
                          !.saw = call.saw, !.creds = call.creds]

\* the coroutine writes and returns
StoreWrite(c) ==
    /\ storeCalls[c].pc \in {"found", "missing"}
    /\ authRows' = Written(storeCalls[c], authRows)
    /\ storeCalls' = [storeCalls EXCEPT ![c] = Finished(storeCalls[c])]
    /\ UNCHANGED <<registered, credCall, schedVars, syncVars, compiled, derived>>

\* ---- GoogleAPIClient._get_credentials as a coroutine on its refresh
\* path: it reads the stored credential (google.py:27), awaits the token
\* endpoint (:41) and then awaits store_credentials (:44), whose lookup and
\* write are the two steps above
\* the coroutine finds one expired credential with a refresh token and
\* sends the token request
RefreshBegin(c, user) ==
    /\ storeCalls[c].pc \in {"idle", "done"}
    /\ user \in registered
    /\ Cardinality(RowsOf(authRows, user)) = 1
    /\ is_expired(get_credentials(registered, authRows, user), now)
    /\ Refreshable(get_credentials(registered, authRows, user))
    /\ storeCalls' = [storeCalls EXCEPT ![c] =
          [IdleCall EXCEPT !.pc = "refreshing", !.user = user,
                           !.seen = get_credentials(registered, authRows, user)]]
    /\ UNCHANGED <<registered, authRows, credCall, schedVars, syncVars, compiled, derived>>

\* the token endpoint answers: without usable credentials the coroutine
\* returns None, otherwise it goes on to store_credentials with the new
\* access token, the refresh token and the email it read, and the new expiry
Answered(call, resp, t) ==
    IF ~Usable(_refresh_token(call.seen.refresh_token, resp).json)
    THEN [IdleCall EXCEPT !.pc = "done", !.ret = "None"]
    ELSE [call EXCEPT
            !.pc = "storing",
            !.access_token = _refresh_token(call.seen.refresh_token, resp).json.access_token,
            !.refresh_token = KeptRefreshToken(call.seen,
                                  _refresh_token(call.seen.refresh_token, resp).json),
            !.token_expiry = t + _refresh_token(call.seen.refresh_token, resp).json.expires_in,
            !.email = call.seen.email,
            !.saw = call.seen.access_token,
            !.creds = _refresh_token(call.seen.refresh_token, resp).json.access_token]

RefreshResponse(c, resp) ==
    /\ storeCalls[c].pc = "refreshing"
    /\ storeCalls' = [storeCalls EXCEPT ![c] = Answered(storeCalls[c], resp, now)]
    /\ UNCHANGED <<registered, authRows, credCall, schedVars, syncVars, compiled, derived>>

\* store_credentials looks the user's credential up
RefreshStore(c) ==
    /\ storeCalls[c].pc = "storing"
    /\ storeCalls' = [storeCalls EXCEPT ![c] =
          Looked([storeCalls[c] EXCEPT !.seen = NoRow], registered, authRows)]
    /\ UNCHANGED <<registered, authRows, credCall, schedVars, syncVars, compiled, derived>>

\* time passes between requests
CredTick ==
    /\ now < MaxTime
    /\ now' = now + 1
    /\ UNCHANGED <<active, pending, store, nextSeq, oneShot, fired, dropped, supersedes, schedRet>>
    /\ UNCHANGED <<credVars, syncVars, compiled, derived, engine>>

\* ---- the calendar handlers' data before any update arrived
NoDue == -1     \* Task.due_date is NULL
NoEvent == 0    \* Task.google_calendar_event_id is NULL

\* user_states has no entry for the user
NoState == [kind |-> "absent", tasks_to_sync |-> <<>>]

\* no sync request precedes the handler run
NoRequest == [at |-> -1, table |-> <<>>]

\* an empty tasks table, an empty user_states dict and an empty calendar
SyncIdle ==
    /\ taskRows = <<>>
    /\ user_states = [u \in Accounts |-> NoState]
    /\ events = {}
    /\ syncCall = [op |-> "none", user |-> 0, outcome |-> "none", at |-> 0, table |-> <<>>,
                   request |-> NoRequest, calls |-> <<>>, success_count |-> 0,
                   error_count |-> 0]
    /\ lastSync = syncCall

\* an empty database, no coroutine started
CredIdle ==
    /\ registered = {}
    /\ authRows = <<>>
    /\ storeCalls = [c \in StoreCallers |-> IdleCall]
    /\ credCall = [op |-> "none", user |-> 0, ret |-> Returned("None"), log |-> "none",
                   posts |-> 0, resp |-> NoResponse, before |-> <<>>, at |-> 0]

CredInit == SchedIdle /\ CredIdle /\ SyncIdle /\ RecIdle /\ DerivedIdle

\* the recurrence compiler called with every kind and parameter set
RecurrenceInit ==
    SchedIdle /\ CredIdle /\ SyncIdle /\ DerivedIdle /\ compiled \in RecurrenceCalls

RecurrenceSpec == RecurrenceInit /\ [][RecurrenceNext]_vars

\* every time of day on a host in any of the local timezones
DailyInit ==
    /\ SchedIdle /\ CredIdle /\ SyncIdle /\ RecIdle
    /\ derived \in {[hour |-> h, minute |-> m, localzone |-> z,
                     summary |-> NoTrigger, recurring |-> NoTrigger] :
                        h \in DayHours, m \in DayMinutes, z \in LocalZones}

DailyNext == BuildSummaryTrigger \/ BuildRecurringTrigger

DailySpec == DailyInit /\ [][DailyNext]_vars

\* a field expression matches a value
Matches(field, v) ==
    IF field[1] = "all" THEN TRUE
    ELSE IF field[1] = "step" THEN v % field[2] = 0
    ELSE v = field[2]

\* minutes east of UTC of a trigger's timezone: the scheduler's timezone is
\* "UTC" (config/settings.py:44), "local" is the host's
ZoneOffset(trigger) == IF trigger.timezone = "local" THEN derived.localzone ELSE 0

\* the trigger fires at the instant t (minutes since a UTC midnight, on the
\* minute): the wall clock of its timezone shows a matching hour and minute
\* (the triggers compared constrain no date field)
FiresAt(trigger, t) ==
    /\ Matches(trigger.hour, ((t + ZoneOffset(trigger)) % 1440) \div 60)
    /\ Matches(trigger.minute, ((t + ZoneOffset(trigger)) % 1440) % 60)

\* C25: the trigger add_daily_summary builds for "HH:MM" and the trigger
\* add_recurring_task builds for the expression of daily(hour = HH, minute
\* = MM) constrain the same fields and fire at the same instants.
C25_DailySummaryIsDailyCron ==
    (derived.summary # NoTrigger /\ derived.recurring # NoTrigger) =>
        /\ derived.summary.error = None /\ derived.recurring.error = None
        /\ derived.summary.day = derived.recurring.day
        /\ derived.summary.month = derived.recurring.month
        /\ derived.summary.day_of_week = derived.recurring.day_of_week
        /\ derived.summary.second = derived.recurring.second
        /\ \A t \in 0..1439 : FiresAt(derived.summary, t) <=> FiresAt(derived.recurring, t)

\* the compiler called twice on the same arguments while the clock runs and
\* the engine is started and stopped in between
RecompileNext ==
    \/ GetCronExpression
    \/ GetCronExpressionAgain
    \/ CredTick
    \/ Start
    \/ Shutdown

RecompileSpec == RecurrenceInit /\ [][RecompileNext]_vars

CompileScheduleNext ==
    \/ GetCronExpression
    \/ \E u \in Users, t \in TaskIds : ScheduleCompiled(u, t)
    \/ \E u \in Users, t \in TaskIds : add_reminder(u, t, MaxTime)
    \/ Start

\* calls of every kind that pass at most a raw expression
CompileScheduleInit ==
    /\ SchedIdle /\ CredIdle /\ SyncIdle /\ DerivedIdle
    /\ compiled \in {c \in RecurrenceCalls : DOMAIN c.kwargs \subseteq {"cron_expression"}}

CompileScheduleSpec == CompileScheduleInit /\ [][CompileScheduleNext]_vars

Expiries == Times

CredNext ==
    \/ \E u \in Accounts : RegisterUser(u)
    \/ \E u \in Accounts, resp \in Responses : GetCredentials(u, resp)
    \/ \E u \in Accounts, a \in AccessTokens, r \in RefreshTokens \cup {None},
         e \in Expiries, m \in Emails \cup {None} : StoreCredentials(u, a, r, e, m)
    \/ \E u \in Accounts : GoogleDisconnect(u)
    \/ \E u \in Accounts, c \in {None, "True", "False"}, g \in {None, "True", "False"} :
         UpdateSyncSettings(u, c, g)
    \/ CredTick

CredSpec == CredInit /\ [][CredNext]_vars

\* users register and store_credentials coroutines run interleaved
StoreRaceNext ==
    \/ \E u \in Accounts : RegisterUser(u)
    \/ \E c \in StoreCallers, u \in Accounts, a \in AccessTokens, r \in {None, "R1"},
         x \in ExpiresIns : StoreLookup(c, u, a, r, now + x, None)
    \/ \E c \in StoreCallers : StoreWrite(c)

StoreRaceSpec == CredInit /\ [][StoreRaceNext]_vars

\* ====================================================================
\* Properties of the credential store
\* ====================================================================
\* the user's credential before and after the recorded operation
RowBefore == get_credentials(registered, credCall.before, credCall.user)
RowAfter == get_credentials(registered, authRows, credCall.user)

IsGet == credCall.op = "get_credentials"

\* the recorded call found a stored credential whose expiry had passed
FoundExpired == IsGet /\ RowBefore # NoRow /\ is_expired(RowBefore, credCall.at)

\* the token endpoint was asked and the request failed: transport exception
\* or a status other than 200
RefreshFailed == IsGet /\ credCall.posts > 0 /\ (credCall.resp.raised \/ credCall.resp.status # 200)

\* the token endpoint was asked and answered 200 with an access token and
\* its validity
RefreshSucceeded ==
    /\ IsGet /\ credCall.posts > 0
    /\ ~credCall.resp.raised /\ credCall.resp.status = 200
    /\ credCall.resp.json.access_token # None /\ credCall.resp.json.expires_in # -1

\* -------------------------------------------------------------- C3
\* C3: a _get_credentials call that finds a stored credential with a past
\* expiry and a refresh token sends exactly one request to the token
\* endpoint, whether that request succeeds or fails.
C3_OneTokenRequest ==
    (FoundExpired /\ RowBefore.refresh_token # None) => credCall.posts = 1

\* an expired, refreshable credential whose single refresh request raised
C3_Witness ==
    /\ FoundExpired /\ RowBefore.refresh_token # None
    /\ credCall.resp.raised /\ credCall.posts = 1

\* -------------------------------------------------------------- C4
\* C4: when the refresh request fails (exception or non-200 status) the call
\* returns None and the google_auth table is exactly as before the call.
C4_FailedRefreshLeavesStore ==
    RefreshFailed => (credCall.ret.tag = "None" /\ authRows = credCall.before)

\* a refresh answered with status 400 on a credential whose sync flags are set
C4_Witness ==
    /\ RefreshFailed
    /\ credCall.resp.status = 400
    /\ RowAfter.calendar_sync_enabled /\ RowAfter.email # None

\* -------------------------------------------------------------- C5
\* C5: on a stored credential with a past expiry and no refresh token the
\* call sends nothing to the token endpoint, returns None on the
\* no-refresh-token branch and leaves the table unchanged.
C5_Unrefreshable ==
    (FoundExpired /\ RowBefore.refresh_token = None) =>
        /\ credCall.posts = 0
        /\ credCall.ret.tag = "None"
        /\ credCall.log = "no_refresh_token"
        /\ authRows = credCall.before

C5_Witness ==
    /\ FoundExpired /\ RowBefore.refresh_token = None
    /\ credCall.log = "no_refresh_token"

\* -------------------------------------------------------------- C6
\* C6: when the refresh request succeeds the call stores the new access
\* token and the expiry now + expires_in, and returns a credential with that
\* same access token: stored and returned access token are equal.
C6_RefreshPersistsAndReturns ==
    RefreshSucceeded =>
        /\ RowAfter # NoRow
        /\ RowAfter.access_token = credCall.resp.json.access_token
        /\ RowAfter.token_expiry = credCall.at + credCall.resp.json.expires_in
        /\ credCall.ret.tag = "UserCreds"
        /\ credCall.ret.access_token = RowAfter.access_token

\* a refresh that replaced the stored access token by a different one
C6_Witness ==
    /\ RefreshSucceeded
    /\ RowAfter.access_token # RowBefore.access_token
    /\ credCall.ret.access_token = RowAfter.access_token

\* -------------------------------------------------------------- C7
\* C7 as stated: after a successful refresh the stored and returned refresh
\* token is the prior one when the response holds none, and the newly issued
\* one when the response holds one.
C7_NewRefreshTokenAdopted ==
    RefreshSucceeded =>
        LET issued == credCall.resp.json.refresh_token
            expected == IF issued = None THEN RowBefore.refresh_token ELSE issued
        IN RowAfter.refresh_token = expected /\ credCall.ret.refresh_token = expected

\* C7, amended: after a successful refresh the stored and returned refresh
\* token is the prior refresh token, whether or not the response holds one.
C7_PriorRefreshTokenKept ==
    RefreshSucceeded =>
        /\ RowAfter.refresh_token = RowBefore.refresh_token
        /\ credCall.ret.refresh_token = RowBefore.refresh_token

\* a successful refresh whose response issued a different refresh token
C7_Witness ==
    /\ RefreshSucceeded
    /\ credCall.resp.json.refresh_token \notin {None, RowBefore.refresh_token}
    /\ RowAfter.refresh_token = RowBefore.refresh_token

\* -------------------------------------------------------------- C8
\* C8: store_credentials is an idempotent upsert for a known user: it creates
\* the credential when there is none, otherwise updates access token and
\* expiry and keeps the stored refresh token when the caller passes none;
\* applying the same call twice leaves the table as applying it once.
C8_IdempotentUpsert ==
    \A u \in Accounts, a \in AccessTokens, r \in RefreshTokens \cup {None},
       e \in Expiries, m \in Emails \cup {None} :
        LET old == get_credentials(registered, authRows, u)
            once == store_credentials(registered, authRows, u, a, r, e, m)
            twice == store_credentials(registered, once, u, a, r, e, m)
            new == get_credentials(registered, once, u)
        IN /\ twice = once
           /\ u \in registered =>
                /\ Cardinality(RowsOf(once, u)) = 1
                /\ new.access_token = a
                /\ new.token_expiry = e
                /\ new.refresh_token =
                      IF r # None THEN r
                      ELSE IF old = NoRow THEN None ELSE old.refresh_token
                /\ old # NoRow =>
                      /\ Len(once) = Len(authRows)
                      /\ new.calendar_sync_enabled = old.calendar_sync_enabled
                      /\ new.gmail_sync_enabled = old.gmail_sync_enabled

\* the same store_credentials call, without a refresh token, has been applied
\* to a credential that holds one, and the table already is the result
C8_Witness ==
    /\ credCall.op = "store_credentials" /\ credCall.log = "updated"
    /\ credCall.ret.refresh_token = None
    /\ RowBefore.refresh_token # None
    /\ RowAfter.refresh_token = RowBefore.refresh_token
    /\ authRows = credCall.before

\* -------------------------------------------------------------- C9
\* C9: google_disconnect deletes the user's credential and returns True when
\* one existed, returns False and changes nothing when none existed (unknown
\* user or no credential); a _get_credentials call made next returns None on
\* the no-credentials branch without asking the token endpoint.
C9_Disconnect ==
    credCall.op = "google_disconnect" =>
        /\ RowBefore # NoRow =>
              /\ credCall.ret.tag = "True"
              /\ RowsOf(authRows, credCall.user) = {}
              /\ \A resp \in Responses :
                    LET r == GetCredentialsResult(registered, authRows, credCall.user, resp, now)
                    IN r.log = "no_credentials" /\ r.posts = 0 /\ r.ret.tag = "None"
                       /\ r.rows = authRows
        /\ RowBefore = NoRow =>
              /\ credCall.ret.tag = "False"
              /\ authRows = credCall.before

\* an expired, refreshable credential has been disconnected
C9_Witness ==
    /\ credCall.op = "google_disconnect" /\ credCall.ret.tag = "True"
    /\ RowBefore # NoRow /\ is_expired(RowBefore, now) /\ RowBefore.refresh_token # None
    /\ authRows = <<>>

C19_OneCredentialPerUser ==
    \A u \in Accounts : Cardinality(RowsOf(authRows, u)) <= 1

\* ====================================================================
\* Calendar synchronisation (bot/handlers/google.py over
\* apps/users/google.py and apps/tasks)
\* ====================================================================
MaxTasks == 2
MaxEvents == 2    \* events the calendar holds at most
DueDates == Times \cup {NoDue}

\* database/models.py Task: the owner, the due date and the id of the
\* calendar event the task is linked to (NULL on creation)
TaskRow(user, due_date) ==
    [user |-> user, due_date |-> due_date, google_calendar_event_id |-> NoEvent]

\* a Task object read from row i of the table
TaskObject(rows, i) ==
    [id |-> i, user |-> rows[i].user, due_date |-> rows[i].due_date,
     google_calendar_event_id |-> rows[i].google_calendar_event_id]

\* apps/tasks/models.py create_task: no row for an unknown user
create_task_rows(reg, rows, user, due_date) ==
    IF user \notin reg THEN rows ELSE Append(rows, TaskRow(user, due_date))

\* order_by("-priority", "due_date") over tasks of one priority: by due
\* date, rows of one due date in id order
RECURSIVE Ordered(_, _)
Ordered(rows, ids) ==
    IF ids = {} THEN <<>>
    ELSE LET first == CHOOSE i \in ids : \A j \in ids :
                          \/ rows[i].due_date < rows[j].due_date
                          \/ rows[i].due_date = rows[j].due_date /\ i <= j
         IN <<first>> \o Ordered(rows, ids \ {first})

\* apps/tasks/models.py get_user_tasks(user_id, due_date_from, limit): the
\* user's tasks due at or after due_date_from (a NULL due date matches no
\* due_date__gte filter), ordered, cut to the limit; [] for an unknown user
get_user_tasks(reg, rows, user, due_date_from, limit) ==
    LET ids == IF user \notin reg THEN {}
               ELSE {i \in 1..Len(rows) : /\ rows[i].user = user
                                          /\ rows[i].due_date # NoDue
                                          /\ rows[i].due_date >= due_date_from}
        ordered == Ordered(rows, ids)
        n == IF Len(ordered) < limit THEN Len(ordered) ELSE limit
    IN [k \in 1..n |-> TaskObject(rows, ordered[k])]

\* google.py:180 [task for task in tasks if task.due_date]
tasks_with_due_dates(tasks) == SelectSeq(tasks, LAMBDA t : t.due_date # NoDue)

SyncLimit == 50

\* TaskService.set_google_calendar_id: the task's row gets the event id,
\* unless the task is gone or belongs to another user
set_google_calendar_id(rows, task_id, user_id, calendar_event_id) ==
    IF task_id \notin 1..Len(rows) \/ rows[task_id].user # user_id THEN rows
    ELSE [rows EXCEPT ![task_id].google_calendar_event_id = calendar_event_id]

\* The names bound in the module namespace of bot/handlers/google.py: its
\* imports (lines 1-10) and its top-level assignments.  Evaluating any other
\* global name raises NameError.
HandlerGlobals ==
    {"logging", "filters", "types", "Client", "CallbackQueryHandler", "MessageHandler",
     "UserService", "GoogleAPIClient", "get_oauth_url", "TaskService", "ERROR_MESSAGES",
     "logger", "user_states"}

Bound(name) == name \in HandlerGlobals

\* the record of a handler run: the handler and the user, how the run ended,
\* the clock and the tasks table when it began, the sync request it answers,
\* the client calls it made, and its tally
SyncCall(op, user, outcome, request, calls, success_count, error_count) ==
    [op |-> op, user |-> user, outcome |-> outcome, at |-> now, table |-> taskRows,
     request |-> request, calls |-> calls, success_count |-> success_count,
     error_count |-> error_count]

\* ---- the provider's and the token endpoint's answers to one client call
SyncResponses ==
    {Response(TRUE, 0, EmptyJson), Response(FALSE, 200, Json("A2", 1, None))}
ProviderAnswers == {"ok", "discover_error", "get_error", "write_error"}
Answers == [resp : SyncResponses, provider : ProviderAnswers]

\* a client call as the handler sees it, with what the call did behind the
\* scenes: the POSTs it sent to the token endpoint and whether
\* _get_credentials gave it credentials
ClientCall(task, kind, ok, event, posts, creds) ==
    [task |-> task, kind |-> kind, ok |-> ok, event |-> event, posts |-> posts,
     creds |-> creds]

\* what a client call hands back: the google_auth table after the credential
\* lookup, the provider's calendar, whether an exception escaped the call,
\* and the event returned (NoEvent for None); posts and creds as in ClientCall
CallResult(g, evs, raised, result) ==
    [auth |-> g.rows, events |-> evs, raised |-> raised, result |-> result,
     posts |-> g.posts, creds |-> g.ret.tag = "UserCreds"]

\* google.py:187-216, given the outcome g of _get_credentials: None without
\* credentials; the discovery request is outside the try block, so its
\* failure escapes; a failed insert is None; otherwise the event the
\* provider created
InsertEvent(g, evs, ans) ==
    IF g.ret.tag # "UserCreds" THEN CallResult(g, evs, FALSE, NoEvent)
    ELSE IF ans.provider = "discover_error" THEN CallResult(g, evs, TRUE, NoEvent)
    ELSE IF ans.provider # "ok" THEN CallResult(g, evs, FALSE, NoEvent)
    ELSE CallResult(g, evs \cup {Cardinality(evs) + 1}, FALSE, Cardinality(evs) + 1)

\* GoogleAPIClient.create_calendar_event
create_calendar_event(auth, evs, user, ans, t) ==
    InsertEvent(GetCredentialsResult(registered, auth, user, ans.resp, t), evs, ans)

\* google.py:229-271, given the outcome g of _get_credentials: None without
\* credentials; the event is fetched (None when the fetch fails, as it does
\* for an event the calendar does not hold), changed and written back (None
\* when that fails)
UpdateEvent(g, evs, event_id, ans) ==
    IF g.ret.tag # "UserCreds" THEN CallResult(g, evs, FALSE, NoEvent)
    ELSE IF ans.provider = "discover_error" THEN CallResult(g, evs, TRUE, NoEvent)
    ELSE IF ans.provider # "ok" \/ event_id \notin evs THEN CallResult(g, evs, FALSE, NoEvent)
    ELSE CallResult(g, evs, FALSE, event_id)

\* GoogleAPIClient.update_calendar_event
update_calendar_event(auth, evs, user, event_id, ans, t) ==
    UpdateEvent(GetCredentialsResult(registered, auth, user, ans.resp, t), evs, event_id, ans)

\* google.py:275-284, after the client call returned r: the id of a created
\* event is written to the task, and the call is counted as a success or
\* an error; an exception that escaped the call ends the handler
Tallied(run, task, user, kind, r) ==
    IF r.raised THEN [run EXCEPT !.auth = r.auth, !.outcome = "provider_error"]
    ELSE [auth |-> r.auth, events |-> r.events,
          tasks |-> IF kind = "create" /\ r.result # NoEvent
                    THEN set_google_calendar_id(run.tasks, task.id, user, r.result)
                    ELSE run.tasks,
          calls |-> Append(run.calls, ClientCall(task.id, kind, r.result # NoEvent, r.result,
                                                 r.posts, r.creds)),
          success_count |-> run.success_count + (IF r.result # NoEvent THEN 1 ELSE 0),
          error_count |-> run.error_count + (IF r.result # NoEvent THEN 0 ELSE 1),
          outcome |-> run.outcome]

\* google.py:255-284, one turn of the loop.  Both branches build the call's
\* arguments first, and end_time is task.due_date + timedelta(hours=1).
SyncOne(run, task, user, ans) ==
    IF ~Bound("timedelta") THEN [run EXCEPT !.outcome = "NameError"]
    ELSE IF task.google_calendar_event_id # NoEvent
    THEN Tallied(run, task, user, "update",
                 update_calendar_event(run.auth, run.events, user,
                                       task.google_calendar_event_id, ans, now))
    ELSE Tallied(run, task, user, "create",
                 create_calendar_event(run.auth, run.events, user, ans, now))

\* google.py:255 `for task in tasks`: the loop ends with the list or with
\* the first exception
RECURSIVE SyncAll(_, _, _, _)
RECURSIVE SyncRest(_, _, _, _)
SyncRest(run, tasks, user, answers) ==
    IF run.outcome # "running" THEN run ELSE SyncAll(run, tasks, user, answers)

SyncAll(run, tasks, user, answers) ==
    IF tasks = <<>> THEN [run EXCEPT !.outcome = "reported"]
    ELSE SyncRest(SyncOne(run, Head(tasks), user, Head(answers)),
                  Tail(tasks), user, Tail(answers))

\* ---- the handlers
\* the confirmation run that a new handler run leaves behind
LastConfirmation ==
    IF syncCall.op = "google_cal_sync_confirm" THEN syncCall ELSE lastSync

\* google_cal_sync_callback: select the user's tasks due from now on and
\* keep them in user_states until the user confirms
google_cal_sync_callback(user) ==
    /\ IF ~Bound("datetime")
       THEN /\ syncCall' = SyncCall("google_cal_sync", user, "NameError", NoRequest, <<>>, 0, 0)
            /\ UNCHANGED user_states
       ELSE LET tasks == tasks_with_due_dates(
                             get_user_tasks(registered, taskRows, user, now, SyncLimit))
            IN IF tasks = <<>>
               THEN /\ syncCall' = SyncCall("google_cal_sync", user, "nothing_to_sync",
                                            NoRequest, <<>>, 0, 0)
                    /\ UNCHANGED user_states
               ELSE /\ syncCall' = SyncCall("google_cal_sync", user, "asked_to_confirm",
                                            NoRequest, <<>>, 0, 0)
                    /\ user_states' = [user_states EXCEPT
                                         ![user] = [kind |-> "tasks_to_sync",
                                                    tasks_to_sync |-> tasks]]
    /\ lastSync' = LastConfirmation
    /\ UNCHANGED <<taskRows, events, schedVars, compiled, derived, credVars>>

\* the state of a run that has reconciled nothing yet
RunStart ==
    [auth |-> authRows, events |-> events, tasks |-> taskRows, calls |-> <<>>,
     success_count |-> 0, error_count |-> 0, outcome |-> "running"]

\* the sync request the confirmation answers: the handler run before it, if
\* that was the user's request
RequestOf(user) ==
    IF syncCall.op = "google_cal_sync" /\ syncCall.user = user
    THEN [at |-> syncCall.at, table |-> syncCall.table]
    ELSE NoRequest

\* google.py:286-301: what the loop did is in the tables; the tally is
\* reported and the user's state cleared unless an exception ended the loop
Reconciled(user, run) ==
    /\ Cardinality(run.events) <= MaxEvents
    /\ syncCall' = SyncCall("google_cal_sync_confirm", user, run.outcome, RequestOf(user),
                            run.calls, run.success_count, run.error_count)
    /\ taskRows' = run.tasks
    /\ events' = run.events
    /\ authRows' = run.auth
    /\ user_states' = IF run.outcome = "reported"
                      THEN [user_states EXCEPT ![user] = NoState]
                      ELSE user_states

\* google_cal_sync_confirm_callback: reconcile the tasks kept in user_states
\* one by one, report the tally and clear the user's state
google_cal_sync_confirm_callback(user) ==
    /\ IF user_states[user].kind # "tasks_to_sync"
       THEN /\ syncCall' = SyncCall("google_cal_sync_confirm", user, "no_tasks_to_sync",
                                    RequestOf(user), <<>>, 0, 0)
            /\ UNCHANGED <<user_states, taskRows, events, authRows>>
       ELSE \E answers \in [1..Len(user_states[user].tasks_to_sync) -> Answers] :
              Reconciled(user, SyncAll(RunStart, user_states[user].tasks_to_sync,
                                       user, answers))
    /\ lastSync' = LastConfirmation
    /\ UNCHANGED <<schedVars, compiled, derived, registered, credCall, storeCalls>>

\* gmail_send_report_callback: the user's state becomes the e-mail prompt
gmail_send_report_callback(user) ==
    /\ user_states' = [user_states EXCEPT
                         ![user] = [kind |-> "entering_email", tasks_to_sync |-> <<>>]]
    /\ syncCall' = SyncCall("gmail_send_report", user, "asked_for_email", NoRequest, <<>>, 0, 0)
    /\ lastSync' = LastConfirmation
    /\ UNCHANGED <<taskRows, events, schedVars, compiled, derived, credVars>>

\* TaskService.create_task
CreateTask(user, due_date) ==
    /\ Len(taskRows) < MaxTasks
    /\ taskRows' = create_task_rows(registered, taskRows, user, due_date)
    /\ UNCHANGED <<user_states, events, syncCall, lastSync, schedVars, compiled, derived, credVars>>

\* ---- deleting a task (apps/tasks/models.py delete_task)
\* what task.delete() leaves of row i: the id is not used again and the row
\* belongs to nobody
DeletedRow == [user |-> 0, due_date |-> NoDue, google_calendar_event_id |-> NoEvent]

\* get_task_by_id finds a task
TaskExists(rows, task_id) == task_id \in 1..Len(rows) /\ rows[task_id] # DeletedRow

\* delete_task deletes: the task exists and the caller owns it (a task of
\* the model has no project, so nobody else has access through one)
MayDelete(rows, task_id, user_id) ==
    TaskExists(rows, task_id) /\ rows[task_id].user = user_id

\* delete_task(task_id, user_id): deletes the row and returns True, or
\* returns False; it makes no call to the scheduler
DeleteTask(task_id, user_id) ==
    /\ taskRows' = IF MayDelete(taskRows, task_id, user_id)
                   THEN [taskRows EXCEPT ![task_id] = DeletedRow] ELSE taskRows
    /\ syncCall' = SyncCall("delete_task", user_id,
                            IF MayDelete(taskRows, task_id, user_id) THEN "True" ELSE "False",
                            NoRequest, <<>>, 0, 0)
    /\ UNCHANGED <<user_states, events, lastSync, schedVars, compiled, derived, credVars>>

\* a caller registers the reminder or the recurrence of an existing task of
\* the user
RegisterReminder(user_id, task_id, run_date) ==
    /\ MayDelete(taskRows, task_id, user_id)
    /\ add_reminder(user_id, task_id, run_date)

RegisterRecurring(user_id, task_id, cron_expression) ==
    /\ MayDelete(taskRows, task_id, user_id)
    /\ add_recurring_task(user_id, task_id, cron_expression)

\* ---- the calendar client called on its own
\* the call is over: the tables are as it left them, and the record says
\* whether it returned or raised
ClientDone(op, user, kind, r) ==
    /\ Cardinality(r.events) <= MaxEvents
    /\ authRows' = r.auth
    /\ events' = r.events
    /\ syncCall' = SyncCall(op, user, IF r.raised THEN "raised" ELSE "returned", NoRequest,
                            <<ClientCall(0, kind, r.result # NoEvent, r.result,
                                         r.posts, r.creds)>>, 0, 0)
    /\ lastSync' = LastConfirmation
    /\ UNCHANGED <<taskRows, user_states, schedVars, compiled, derived, registered, credCall, storeCalls>>

\* GoogleAPIClient(user).create_calendar_event(...)
CreateCalendarEvent(user, ans) ==
    ClientDone("create_calendar_event", user, "create",
               create_calendar_event(authRows, events, user, ans, now))

\* GoogleAPIClient(user).update_calendar_event(event_id, ...)
UpdateCalendarEvent(user, event_id, ans) ==
    ClientDone("update_calendar_event", user, "update",
               update_calendar_event(authRows, events, user, event_id, ans, now))

\* a registered user who has or has not connected a Google account, no
\* tasks yet
SyncInit ==
    /\ SchedIdle
    /\ SyncIdle
    /\ RecIdle
    /\ DerivedIdle
    /\ registered = Accounts
    /\ \E rows \in {<<>>} \cup {<<AuthRow(u, "A1", r, e, None)>> :
                                   u \in Accounts, r \in {None, "R1"}, e \in Expiries} :
         /\ authRows = rows
         /\ credCall = Call("none", 0, Returned("None"), "none", 0, NoResponse)
    /\ storeCalls = [c \in StoreCallers |-> IdleCall]

SyncNext ==
    \/ \E u \in Accounts, d \in DueDates : CreateTask(u, d)
    \/ \E u \in Accounts : google_cal_sync_callback(u)
    \/ \E u \in Accounts : google_cal_sync_confirm_callback(u)
    \/ \E u \in Accounts : gmail_send_report_callback(u)
    \/ CredTick

SyncSpec == SyncInit /\ [][SyncNext]_vars

\* tasks are created, get reminders and recurrences, and are deleted while
\* the engine runs
TaskJobsInit ==
    /\ SchedIdle /\ SyncIdle /\ RecIdle /\ DerivedIdle
    /\ registered = Accounts
    /\ authRows = <<>>
    /\ credCall = Call("none", 0, Returned("None"), "none", 0, NoResponse)
    /\ storeCalls = [c \in StoreCallers |-> IdleCall]

TaskJobsNext ==
    \/ \E u \in Accounts : CreateTask(u, NoDue)
    \/ \E u \in Users, t \in TaskIds, d \in Times : RegisterReminder(u, t, d)
    \/ \E u \in Users, t \in TaskIds, c \in CronSlots : RegisterRecurring(u, t, c)
    \/ \E u \in Users \cup {2}, t \in TaskIds : DeleteTask(t, u)
    \/ Start
    \/ \E id \in JobIds : Fire(id)
    \/ Tick

TaskJobsSpec == TaskJobsInit /\ [][TaskJobsNext]_vars

\* a refresh runs as a coroutine while the user disconnects
RefreshRaceNext ==
    \/ \E c \in StoreCallers, u \in Accounts : RefreshBegin(c, u)
    \/ \E c \in StoreCallers, resp \in SyncResponses : RefreshResponse(c, resp)
    \/ \E c \in StoreCallers : RefreshStore(c)
    \/ \E c \in StoreCallers : StoreWrite(c)
    \/ \E u \in Accounts : GoogleDisconnect(u)
    \/ CredTick

RefreshRaceSpec == SyncInit /\ [][RefreshRaceNext]_vars

\* C27: while the last credential operation is a disconnect that returned
\* True (no authorization has been made since), the user has no stored
\* credential, whatever refresh was in flight when the disconnect ran.
C27_DisconnectedStaysDisconnected ==
    (credCall.op = "google_disconnect" /\ credCall.ret.tag = "True") =>
        RowsOf(authRows, credCall.user) = {}

\* two _get_credentials coroutines refresh the same user's credential
\* while time passes; the token endpoint answers each with its own token
ConcurrentRefreshNext ==
    \/ \E c \in StoreCallers, u \in Accounts : RefreshBegin(c, u)
    \/ \E c \in StoreCallers, a \in {"A2", "A3"}, x \in ExpiresIns, r \in {None, "R2"} :
          RefreshResponse(c, Response(FALSE, 200, Json(a, x, r)))
    \/ \E c \in StoreCallers : RefreshResponse(c, Response(TRUE, 0, EmptyJson))
    \/ \E c \in StoreCallers : RefreshStore(c)
    \/ \E c \in StoreCallers : StoreWrite(c)
    \/ CredTick

ConcurrentRefreshSpec == SyncInit /\ [][ConcurrentRefreshNext]_vars

\* coroutine d has returned from a successful refresh of the credential
\* that coroutine c, now at its write, had found expired as well
BothRefreshed(c, d) ==
    /\ c # d
    /\ storeCalls[c].pc \in {"found", "missing"}
    /\ storeCalls[c].creds # None
    /\ storeCalls[d].pc = "done"
    /\ storeCalls[d].ret = "UserCreds"
    /\ storeCalls[d].user = storeCalls[c].user
    /\ storeCalls[d].saw = storeCalls[c].saw

\* C31: when two get_valid_credential calls for one user both found the
\* same expired credential and both refreshed successfully, then in every
\* interleaving, once the second one has written, the user has exactly one
\* credential record, it holds the access token of one of the two refresh
\* responses and not the expired one, its refresh token is the one it had,
\* and each caller returns the access token of its own response.
C31_ConcurrentRefresh ==
    [][\A c \in StoreCallers : \A d \in StoreCallers :
          (BothRefreshed(c, d) /\ StoreWrite(c)) =>
             /\ Cardinality(RowsOf(authRows', storeCalls[c].user)) = 1
             /\ \A i \in RowsOf(authRows', storeCalls[c].user) :
                   /\ authRows'[i].access_token \in {storeCalls[c].creds, storeCalls[d].creds}
                   /\ authRows'[i].access_token # storeCalls[c].saw
                   /\ i \in RowsOf(authRows, storeCalls[c].user)
                   /\ authRows'[i].refresh_token = authRows[i].refresh_token
             /\ storeCalls'[c].ret = "UserCreds"
             /\ storeCalls'[c].creds = storeCalls[c].access_token
             /\ storeCalls'[d] = storeCalls[d]]_vars

\* both coroutines found the credential with token A1 expired, were given
\* different tokens, and both have returned; the record holds the token of
\* the one that wrote last
C31_Witness ==
    /\ \A c \in StoreCallers :
          /\ storeCalls[c].pc = "done"
          /\ storeCalls[c].ret = "UserCreds"
          /\ storeCalls[c].saw = "A1"
    /\ storeCalls[1].creds # storeCalls[2].creds
    /\ \E i \in 1..Len(authRows) : authRows[i].access_token = storeCalls[1].creds

\* a store_credentials coroutine runs while the user changes the sync settings
SettingsRaceNext ==
    \/ \E u \in Accounts, r \in {None, "R2"}, m \in Emails \cup {None} :
         StoreLookup(1, u, "A2", r, MaxTime + 1, m)
    \/ StoreWrite(1)
    \/ \E u \in Accounts, c \in {None, "True", "False"}, g \in {None, "True"} :
         UpdateSyncSettings(u, c, g)
    \/ CredTick

SettingsRaceSpec == SyncInit /\ [][SettingsRaceNext]_vars

\* C32: a store_credentials that finds the user's credential changes only
\* its access token, its expiry and, when supplied, its refresh token and
\* email; the calendar and mail sync flags stay as update_sync_settings
\* last set them, also when that update ran between the store's lookup and
\* its write.
C32_StoreKeepsSyncFlags ==
    [][\A c \in StoreCallers :
          (StoreWrite(c) /\ storeCalls[c].pc = "found") =>
             /\ Len(authRows') = Len(authRows)
             /\ \A i \in 1..Len(authRows) :
                   /\ authRows'[i].calendar_sync_enabled = authRows[i].calendar_sync_enabled
                   /\ authRows'[i].gmail_sync_enabled = authRows[i].gmail_sync_enabled
                   /\ authRows'[i].user = authRows[i].user
                   /\ storeCalls[c].refresh_token = None
                         => authRows'[i].refresh_token = authRows[i].refresh_token
                   /\ storeCalls[c].email = None
                         => authRows'[i].email = authRows[i].email]_vars

\* the client's two calendar calls for a user who has or has not connected
\* a Google account, while time passes
ClientNext ==
    \/ \E u \in Accounts, ans \in Answers : CreateCalendarEvent(u, ans)
    \/ \E u \in Accounts, id \in 1..MaxEvents, ans \in Answers : UpdateCalendarEvent(u, id, ans)
    \/ CredTick

ClientSpec == SyncInit /\ [][ClientNext]_vars

\* ====================================================================
\* Properties of the calendar synchronisation
\* ====================================================================
\* the batch the recorded confirmation answers: the tasks with due dates
\* the user had when the sync was requested
BatchOf(call) ==
    IF call.request = NoRequest THEN <<>>
    ELSE tasks_with_due_dates(get_user_tasks(registered, call.request.table,
                                             call.user, call.request.at, SyncLimit))

Batch == BatchOf(syncCall)

\* the client calls the recorded run made for a task
CallsFor(id) == {i \in 1..Len(syncCall.calls) : syncCall.calls[i].task = id}

\* the run met no failing call and no provider exception
ProviderSucceededIn(call) ==
    /\ call.outcome # "provider_error"
    /\ \A i \in 1..Len(call.calls) : call.calls[i].ok

ProviderSucceeded == ProviderSucceededIn(syncCall)

\* C10: when the user requests a sync and confirms it and the provider
\* succeeds for every call, each task of the batch that already carries an
\* external event id receives exactly one update call and no create call,
\* each task without one receives exactly one create call and no update
\* call, and afterwards every task that had no id carries the id the
\* provider returned for its create.
C10_BatchReconciles ==
    (syncCall.op = "google_cal_sync_confirm" /\ Batch # <<>> /\ ProviderSucceeded) =>
        \A k \in 1..Len(Batch) :
            LET task == Batch[k]
                kind == IF task.google_calendar_event_id # NoEvent THEN "update" ELSE "create"
            IN /\ Cardinality(CallsFor(task.id)) = 1
               /\ \A i \in CallsFor(task.id) :
                     /\ syncCall.calls[i].kind = kind
                     /\ kind = "create" =>
                           /\ syncCall.calls[i].event # NoEvent
                           /\ taskRows[task.id].google_calendar_event_id
                                = syncCall.calls[i].event

\* the ids of the tasks of a batch
TaskIdsOf(batch) == {batch[k].id : k \in 1..Len(batch)}

\* C11: when the user requests and confirms a sync, and then requests and
\* confirms a sync of the same tasks again, the provider succeeding
\* throughout, the second run issues exactly one update call and no create
\* call for every task of its batch, so that the calendar gains no event.
C11_RerunOnlyUpdates ==
    (/\ syncCall.op = "google_cal_sync_confirm" /\ Batch # <<>> /\ ProviderSucceeded
     /\ lastSync.op = "google_cal_sync_confirm" /\ lastSync.user = syncCall.user
     /\ BatchOf(lastSync) # <<>> /\ ProviderSucceededIn(lastSync)
     /\ TaskIdsOf(Batch) \subseteq TaskIdsOf(BatchOf(lastSync))) =>
        /\ \A id \in TaskIdsOf(Batch) : Cardinality(CallsFor(id)) = 1
        /\ \A i \in 1..Len(syncCall.calls) : syncCall.calls[i].kind = "update"

\* the tasks of the recorded batch that no client call of the run succeeded for
FailedTasks ==
    {k \in 1..Len(Batch) :
        \A i \in CallsFor(Batch[k].id) : ~syncCall.calls[i].ok}

\* C12: every task of a confirmed batch whose create or update did not
\* succeed (credential unavailable or provider error) is counted as failed,
\* by one failed client call and one unit of the failure count, and its
\* stored event id after the run is the one it had before.
C12_FailedTaskKeepsLink ==
    (syncCall.op = "google_cal_sync_confirm" /\ Batch # <<>>) =>
        /\ syncCall.error_count = Cardinality(FailedTasks)
        /\ \A k \in FailedTasks :
              /\ Cardinality(CallsFor(Batch[k].id)) = 1
              /\ taskRows[Batch[k].id].google_calendar_event_id
                   = Batch[k].google_calendar_event_id

\* C13: every confirmed batch over n tasks ends with a reported tally in
\* which each task is counted exactly once: succeeded + failed = n, whatever
\* the provider answered for each task.
C13_TallyCountsEveryTask ==
    (syncCall.op = "google_cal_sync_confirm" /\ Batch # <<>>) =>
        /\ syncCall.outcome = "reported"
        /\ syncCall.success_count + syncCall.error_count = Len(Batch)
        /\ \A k \in 1..Len(Batch) : Cardinality(CallsFor(Batch[k].id)) = 1

\* the recorded operation is a call of the calendar client
IsClientCall == syncCall.op \in {"create_calendar_event", "update_calendar_event"}

\* C14: every failure of the token endpoint or of the calendar provider, at
\* any step of a client call including service discovery, is caught inside
\* the client and returned as a failure value: a client call always returns
\* and never raises.
C14_ClientNeverRaises == IsClientCall => syncCall.outcome = "returned"

\* no valid credential can be obtained for the user of the recorded run: none
\* is stored, or the stored one had expired and has no refresh token, or
\* the run's first client call got none (its refresh failed)
NoCredentialAtAll ==
    \/ get_credentials(registered, authRows, syncCall.user) = NoRow
    \/ /\ get_credentials(registered, authRows, syncCall.user) # NoRow
       /\ is_expired(get_credentials(registered, authRows, syncCall.user), syncCall.at)
       /\ ~Refreshable(get_credentials(registered, authRows, syncCall.user))
    \/ syncCall.calls # <<>> /\ ~syncCall.calls[1].creds

\* C15: when no valid credential can be obtained for the user at all, the
\* confirmed batch short-circuits: once the failure is detected (at the
\* latest by the first attempt) no create or update is attempted for a task
\* and the token endpoint is not asked again, and the batch reports zero
\* succeeded.
C15_ShortCircuit ==
    (syncCall.op = "google_cal_sync_confirm" /\ Batch # <<>> /\ NoCredentialAtAll) =>
        /\ syncCall.outcome = "reported"
        /\ syncCall.success_count = 0
        /\ Len(syncCall.calls) <= 1
        /\ Cardinality({i \in 1..Len(syncCall.calls) : syncCall.calls[i].posts > 0}) <= 1

\* ====================================================================
\* Specifications of the scheduler
\* ====================================================================
SchedInit == SchedIdle /\ CredIdle /\ SyncIdle /\ RecIdle /\ DerivedIdle

SchedNext ==
    \/ Start
    \/ Shutdown
    \/ \E u \in Users, t \in TaskIds, d \in Times : add_reminder(u, t, d)
    \/ \E u \in Users, t \in TaskIds, c \in CronSlots \cup {BadCron} : add_recurring_task(u, t, c)
    \/ \E u \in Users, c \in CronSlots : add_daily_summary(u, c)
    \/ \E id \in JobIds : remove_job(id)
    \/ \E id \in JobIds : Fire(id)
    \/ Tick

SchedSpec == SchedInit /\ [][SchedNext]_vars

\* jobs are registered and cancelled while the engine runs them: callbacks
\* take any time to end, by returning or by raising, over the longer clock
ExecutorNext ==
    \/ Start
    \/ \E u \in Users, t \in TaskIds, d \in Times : add_reminder(u, t, d)
    \/ \E u \in Users, t \in TaskIds, c \in CronSlots : add_recurring_task(u, t, c)
    \/ \E id \in JobIds : remove_job(id)
    \/ \E id \in JobIds : Fire(id)
    \/ \E id \in JobIds, outcome \in {"returned", "raised"} : Complete(id, outcome)
    \/ LongTick

ExecutorSpec == SchedInit /\ [][ExecutorNext]_vars

\* a recurring job on the running engine with the event loop's scheduling:
\* the clock goes on, the engine processes every due job, every callback ends
DeferNext ==
    \/ Start
    \/ \E u \in Users, t \in TaskIds, c \in CronSlots : add_recurring_task(u, t, c)
    \/ \E id \in JobIds : Fire(id)
    \/ \E id \in JobIds, outcome \in {"returned", "raised"} : Complete(id, outcome)
    \/ LongTick

DeferFairSpec ==
    /\ SchedInit
    /\ [][DeferNext]_vars
    /\ WF_vars(LongTick)
    /\ \A id \in JobIds : WF_vars(Fire(id))
    /\ \A id \in JobIds : WF_vars(\E outcome \in {"returned", "raised"} : Complete(id, outcome))

\* jobs registered for times still to come, on an engine that is started
\* and shut down while the clock goes on
MissedNext ==
    \/ Start
    \/ Shutdown
    \/ \E u \in Users, t \in TaskIds, d \in Times : d >= now /\ add_reminder(u, t, d)
    \/ \E u \in Users, t \in TaskIds, c \in CronSlots : add_recurring_task(u, t, c)
    \/ \E id \in JobIds : Fire(id)
    \/ \E id \in JobIds, outcome \in {"returned", "raised"} : Complete(id, outcome)
    \/ LongTick

MissedSpec == SchedInit /\ [][MissedNext]_vars

\* callers construct BotScheduler again while the module's scheduler object
\* is in use: jobs are registered, the engine is started and shut down
SingletonNext ==
    \/ BotSchedulerNew
    \/ Start
    \/ Shutdown
    \/ \E u \in Users, t \in TaskIds, d \in Times : add_reminder(u, t, d)
    \/ \E u \in Users, t \in TaskIds, c \in CronSlots : add_recurring_task(u, t, c)
    \/ \E id \in JobIds : Fire(id)
    \/ Tick

SingletonSpec == SchedInit /\ [][SingletonNext]_vars

\* callers register jobs, start and stop the engine and list the jobs of a
\* user (also of a user who registered none)
UserJobsNext ==
    \/ Start
    \/ Shutdown
    \/ \E u \in Users, t \in TaskIds, d \in Times : add_reminder(u, t, d)
    \/ \E u \in Users, c \in CronSlots : add_daily_summary(u, c)
    \/ \E u \in Users \cup {2} : get_user_jobs(u)

UserJobsSpec == SchedInit /\ [][UserJobsNext]_vars

\* One-shot reminders only: the callers register, re-register and cancel
\* reminders and start and stop the engine.  The engine's own loop
\* (AsyncIOScheduler wakeups on the event loop) keeps running whatever the
\* callers do: time passes and every due job is processed.
ReminderNext ==
    \/ Start
    \/ Shutdown
    \/ \E u \in Users, t \in TaskIds, d \in Times : add_reminder(u, t, d)
    \/ \E u \in Users, t \in TaskIds : remove_job(ReminderId(u, t))
    \/ \E u \in Users, t \in TaskIds : Fire(ReminderId(u, t))
    \/ Tick

ReminderFairSpec ==
    /\ SchedInit
    /\ [][ReminderNext]_vars
    /\ WF_vars(Tick)
    /\ \A u \in Users, t \in TaskIds : WF_vars(Fire(ReminderId(u, t)))

\* -------------------------------------------------------------- C1
\* s2 is a one-shot job that took over the id of the one-shot job s1
Replaces(s2, s1) == s2 \in oneShot /\ s1 \in oneShot /\ supersedes[s2] = s1

C1_OneJobUnderId ==
    \A s2 \in 1..MaxAdds : \A s1 \in 1..MaxAdds :
        Replaces(s2, s1) =>
            /\ s1 \notin fired
            /\ s1 \notin Seqs(store)
            /\ \A i \in 1..Len(store) :
                  store[i].seq = s2 => Positions(store, store[i].id) = {i}

C1_SecondFires ==
    \A s2 \in 1..MaxAdds :
        ((\E s1 \in 1..MaxAdds : Replaces(s2, s1)) /\ s2 \in Seqs(store))
            ~> (s2 \in fired \/ s2 \in dropped)

\* C1: when a one-shot job is registered under an id and another job is
\* registered under the same id before the first fires, exactly one job is
\* held under that id, the first job's trigger never fires, and the second
\* job's trigger eventually fires -- unless the second job is itself
\* replaced, cancelled or lost in a shutdown first.
C1_ReplacedReminder == []C1_OneJobUnderId /\ C1_SecondFires

\* a second reminder replaced a first one under the same id while the
\* engine ran, and has fired without any cancellation
C1_Witness ==
    \E s2 \in 1..MaxAdds : \E s1 \in 1..MaxAdds :
        /\ Replaces(s2, s1)
        /\ s2 \in fired
        /\ dropped = {s1}

\* -------------------------------------------------------------- C2
AtMostOnePerId(jobs) == \A id \in JobIds : Cardinality(Positions(jobs, id)) <= 1

JobTable == IF active THEN store ELSE pending

\* the positions of the job table that hold a job of the user
TableOfUser(user_id) == {i \in 1..Len(JobTable) : JobTable[i].id[2] = user_id}

\* C24: get_user_jobs(user_id) returns the jobs of the job table whose
\* argument bag holds user_id, each once, and no job of another user, and
\* leaves the job table as it was.
C24_UserJobsExact ==
    [][\A u \in Users \cup {2} : get_user_jobs(u) =>
          /\ schedRet'.tag = "jobs"
          /\ Len(schedRet'.id) = Cardinality(TableOfUser(u))
          /\ \A i \in TableOfUser(u) : \E k \in 1..Len(schedRet'.id) :
                schedRet'.id[k].id = JobTable[i].id /\ schedRet'.id[k].trigger = JobTable[i].trig
          /\ \A k \in 1..Len(schedRet'.id) : schedRet'.id[k].id[2] = u
          /\ store' = store /\ pending' = pending /\ active' = active
      ]_vars

NotCrontab == {<<"b", "a", "d">>, <<"6", "1", " ", "9", " ", "*", " ", "*", " ", "*">>}

\* C22: a custom call that supplies an expression returns exactly that
\* expression, valid or not; handing an expression that is not a crontab
\* expression to add_recurring_task raises ValueError there and leaves the
\* job table (started or pending) as it was.
C22_CustomPassThrough ==
    [][/\ (GetCronExpression /\ compiled.recurrence_type = "custom"
            /\ "cron_expression" \in DOMAIN compiled.kwargs) =>
            (compiled'.returned /\ compiled'.expression = compiled.kwargs["cron_expression"])
       /\ \A u \in Users, t \in TaskIds :
            (ScheduleCompiled(u, t) /\ compiled.recurrence_type = "custom"
             /\ compiled.expression \in NotCrontab) =>
            (schedRet' = Ret("ValueError", <<>>) /\ store' = store /\ pending' = pending)
      ]_vars

\* a custom call returned "61 9 * * *", and add_recurring_task raised on it
\* while the started engine held a job
C22_Witness ==
    /\ compiled.returned
    /\ compiled.recurrence_type = "custom"
    /\ compiled.expression = <<"6", "1", " ", "9", " ", "*", " ", "*", " ", "*">>
    /\ schedRet = Ret("ValueError", <<>>)
    /\ active /\ store # <<>>

\* C16: remove_job on an id that is not in the job table returns False and
\* raises nothing, and a remove_job that returns False leaves every
\* scheduled job (id, trigger, next firing) and the engine state unchanged.
C16_CancelUnknown ==
    [][\A id \in JobIds :
          remove_job(id) =>
             /\ Positions(JobTable, id) = {} => schedRet' = Ret("False", id)
             /\ schedRet' = Ret("False", id)
                   => (store' = store /\ pending' = pending /\ active' = active)]_vars

\* a cancel of an unknown id has returned False while other jobs are scheduled
C16_Witness ==
    /\ schedRet.tag = "False"
    /\ JobTable # <<>>
    /\ Positions(JobTable, schedRet.id) = {}

\* C17: start() leaves the engine running and shutdown() leaves it stopped,
\* neither raises, and start() while running and shutdown() while stopped
\* are no-ops: the engine state and the job table stay as they were, so the
\* underlying scheduler is never started while running nor shut down while
\* stopped.
C17_StartShutdownIdempotent ==
    [][/\ Start => /\ active' /\ schedRet'.tag = "None"
                   /\ active => (store' = store /\ pending' = pending
                                 /\ schedRet' = Ret("None", <<>>))
       /\ Shutdown => /\ ~active' /\ schedRet'.tag = "None"
                      /\ ~active => (store' = store /\ pending' = pending
                                     /\ schedRet' = Ret("None", <<>>))]_vars

\* start() was called on a running engine that holds a job, or shutdown()
\* on an engine that was stopped after it had run
C17_Witness ==
    /\ schedRet = Ret("None", <<>>)
    /\ \/ active /\ store # <<>>
       \/ ~active /\ dropped # {} /\ pending # <<>>

\* the jobs of a table that are held under another id, in table order
RECURSIVE OtherJobs(_, _)
OtherJobs(jobs, id) ==
    IF jobs = <<>> THEN <<>>
    ELSE IF Head(jobs).id = id THEN OtherJobs(Tail(jobs), id)
    ELSE <<Head(jobs)>> \o OtherJobs(Tail(jobs), id)

\* C34: remove_job of an id that is in the job table returns True and
\* removes exactly that job: no job is held under the id afterwards, so
\* none can start a firing; callback invocations in flight are left to run
\* (the executor is untouched); and the jobs held under other ids and the
\* engine state are unchanged.
C34_CancelKnown ==
    [][\A id \in JobIds :
          (remove_job(id) /\ Positions(JobTable, id) # {}) =>
             /\ schedRet' = Ret("True", id)
             /\ Positions(JobTable', id) = {}
             /\ OtherJobs(JobTable', id) = OtherJobs(JobTable, id)
             /\ engine' = engine
             /\ active' = active]_vars

\* C35: at no time do more than max_instances callback invocations of one
\* job id run together.
C35_InstancesCapped ==
    \A id \in JobIds : engine.instances[id] <= max_instances

\* a job id has max_instances invocations running and a further firing of
\* it came due
C35_Witness ==
    \E id \in JobIds :
        /\ engine.instances[id] = max_instances
        /\ engine.last # <<>>
        /\ engine.last[1] = id
        /\ engine.last[3] = "max_instances"

\* C37: a callback that raises is caught: the engine stays running, the
\* job table is as it was, the invocation is over, and every job that is
\* due is still in the table of the running engine, to be fired before the
\* clock moves on.
C37_RaisingCallbackCaught ==
    [][\A id \in JobIds :
          Complete(id, "raised") =>
             /\ active' = active
             /\ store' = store
             /\ pending' = pending
             /\ engine'.instances[id] = engine.instances[id] - 1
             /\ \A j \in JobIds \ {id} : engine'.instances[j] = engine.instances[j]
             /\ \A j \in JobIds : ENABLED Fire(j) =>
                   (active' /\ \E i \in Positions(store', j) : store'[i].next <= now')]_vars

\* a callback has raised while the engine runs and another job is due
C37_Witness ==
    /\ engine.event # <<>>
    /\ engine.event[2] = "raised"
    /\ active
    /\ \E j \in JobIds \ {engine.event[1]} : \E i \in Positions(store, j) : Due(store[i])

C38_MissedNotReplayed ==
    [][\A id \in JobIds :
          Fire(id) => (engine'.last[3] = "run" => engine'.last[2] = now)]_vars

\* C39: constructing BotScheduler again yields the engine object that is
\* already there and does not initialise it again: the call hands back the
\* same instance, and the jobs in the store, the jobs waiting for the start
\* and the running/stopped state are as before the construction.
C39_SingletonKept ==
    [][BotSchedulerNew =>
          /\ schedRet' = Ret("BotScheduler", <<engine.instance>>)
          /\ engine' = engine
          /\ store' = store
          /\ pending' = pending
          /\ active' = active]_vars

\* BotScheduler was constructed again while the engine ran with a job in
\* its store
C39_Witness ==
    /\ schedRet = Ret("BotScheduler", <<engine.instance>>)
    /\ active
    /\ store # <<>>

====
